---- MODULE Spec2Model ----
(***************************************************************************)
(* Student management system: the Student entity (student.py), the JSON   *)
(* file store StudentDatabase (database.py) and the StudentManager facade  *)
(* (student_manager.py).                                                   *)
(*                                                                         *)
(* Representation.  A Python str is a sequence of one-character strings.   *)
(* A grade or a gpa is an exact decimal: a grade is an integer number of   *)
(* tenths (35 is 3.5), a gpa is a reduced fraction <<n, d>> of tenths      *)
(* (<<35, 1>> is 3.5, <<55, 2>> is 2.75).  A date string "YYYY-MM-DD" is   *)
(* the triple <<y, m, d>> of its fields.  A call that raises is the record *)
(* Raise, a call that returns v is Return(v).                              *)
(***************************************************************************)
EXTENDS Integers, Sequences, FiniteSets, TLC

VARIABLES
    file,      \* the primary JSON file: the sequence of stored dictionaries
    shape,     \* what the primary file is: a JSON list, a JSON number, torn
               \* text, or missing
    backups,   \* the backup directory: backup file name -> contents
    today,     \* the current day, read by datetime.now()
    student,   \* the caller's in-memory Student object, or NoStudent
    writer,    \* of each concurrent writer: the call it is in, where it is in
               \* it, the data it loaded and what it returned
    last       \* the last call: its name, arguments, outcome and pre-state

vars == <<file, shape, backups, today, student, writer, last>>

(***************************************************************************)
(* Bounds of the model.                                                    *)
(***************************************************************************)
MaxStudents == 2
MaxDay == 1
MaxRecords == 4

(***************************************************************************)
(* Characters and Python's str methods.                                    *)
(***************************************************************************)
LowerLetters == <<"a", "b", "c", "e", "i", "l", "o", "s", "u", "x">>
UpperLetters == <<"A", "B", "C", "E", "I", "L", "O", "S", "U", "X">>
Digits == {"0", "1", "2", "3", "4", "5", "6", "7", "8", "9"}
Whitespace == {" ", "\t", "\n"}

Range(s) == {s[i] : i \in DOMAIN s}
LowerSet == Range(LowerLetters)
UpperSet == Range(UpperLetters)
IsLetter(c) == c \in LowerSet \/ c \in UpperSet

\* the upper-case form of each lower-case letter, and the converse
ToUpper == [c \in LowerSet |-> UpperLetters[CHOOSE i \in DOMAIN LowerLetters : LowerLetters[i] = c]]
ToLower == [c \in UpperSet |-> LowerLetters[CHOOSE i \in DOMAIN UpperLetters : UpperLetters[i] = c]]

UpperChar(c) == IF c \in LowerSet THEN ToUpper[c] ELSE c
LowerChar(c) == IF c \in UpperSet THEN ToLower[c] ELSE c

\* str.upper(), str.lower()
upper(s) == [i \in DOMAIN s |-> UpperChar(s[i])]
lower(s) == [i \in DOMAIN s |-> LowerChar(s[i])]

\* str.title(): a letter that follows a letter is lowered, any other raised
title(s) ==
    [i \in DOMAIN s |->
        IF i > 1 /\ IsLetter(s[i - 1]) THEN LowerChar(s[i]) ELSE UpperChar(s[i])]

\* str.strip(): leading and trailing whitespace removed
strip(s) ==
    LET n == Len(s)
        \* the number of whitespace characters s starts with, and ends with
        lead == CHOOSE k \in 0..n :
                    /\ \A j \in 1..k : s[j] \in Whitespace
                    /\ k = n \/ s[k + 1] \notin Whitespace
        trail == CHOOSE k \in 0..n :
                    /\ \A j \in (n - k + 1)..n : s[j] \in Whitespace
                    /\ k = n \/ s[n - k] \notin Whitespace
    IN  IF lead = n THEN <<>> ELSE SubSeq(s, lead + 1, n - trail)

\* len(re.sub(r'\D', '', s))
DigitCount(s) == Cardinality({i \in DOMAIN s : s[i] \in Digits})

(***************************************************************************)
(* Exact arithmetic on grades.                                             *)
(***************************************************************************)
RECURSIVE GCD(_, _)
GCD(a, b) == IF b = 0 THEN a ELSE GCD(b, a % b)

\* the fraction n/d (n >= 0, d > 0) in lowest terms
Frac(n, d) == LET g == GCD(n, d) IN IF g = 0 THEN <<0, 1>> ELSE <<n \div g, d \div g>>

RECURSIVE SumValues(_)
SumValues(g) ==
    IF DOMAIN g = {} THEN 0
    ELSE LET c == CHOOSE x \in DOMAIN g : TRUE
         IN  g[c] + SumValues([x \in DOMAIN g \ {c} |-> g[x]])

\* sum(grades.values()) / len(grades)
Mean(g) == Frac(SumValues(g), Cardinality(DOMAIN g))

Zero == Frac(0, 1)

\* float("nan"), as 0/0: it is not below, above or equal to any number
NaN == <<0, 0>>

(***************************************************************************)
(* Outcomes of a call.                                                     *)
(***************************************************************************)
Raise == [ok |-> FALSE]
Return(v) == [ok |-> TRUE, val |-> v]

(***************************************************************************)
(* Student: the validators of the constructor.                             *)
(***************************************************************************)
MinIdLen == 3
MinPhoneDigits == 10
MaxGpa == 40
MaxGrade == 40

\* Student._validate_student_id
validate_student_id(student_id) ==
    IF student_id = <<>> THEN Raise
    ELSE IF Len(student_id) < MinIdLen THEN Raise
    ELSE Return(upper(strip(student_id)))

\* Student._validate_name
validate_name(name) ==
    IF name = <<>> THEN Raise
    ELSE IF strip(name) = <<>> THEN Raise
    ELSE Return(title(strip(name)))

LocalChars == LowerSet \cup UpperSet \cup Digits \cup {".", "_", "%", "+", "-"}
DomainChars == LowerSet \cup UpperSet \cup Digits \cup {".", "-"}

\* s[1..n] matches [a-zA-Z0-9._%+-]+@[a-zA-Z0-9.-]+\.[a-zA-Z]{2,}
MatchesUpTo(s, n) ==
    \E at \in 2..n : \E dot \in (at + 2)..(n - 2) :
        /\ s[at] = "@"
        /\ s[dot] = "."
        /\ \A i \in 1..(at - 1) : s[i] \in LocalChars
        /\ \A i \in (at + 1)..(dot - 1) : s[i] \in DomainChars
        /\ \A i \in (dot + 1)..n : IsLetter(s[i])

\* re.match(email_pattern, email): $ matches at the end and before a final newline
EmailMatch(s) ==
    \/ MatchesUpTo(s, Len(s))
    \/ Len(s) > 0 /\ s[Len(s)] = "\n" /\ MatchesUpTo(s, Len(s) - 1)

\* Student._validate_email
validate_email(email) ==
    IF email = <<>> THEN Raise
    ELSE IF ~EmailMatch(email) THEN Raise
    ELSE Return(lower(strip(email)))

\* Student._validate_phone
validate_phone(phone) ==
    IF phone = <<>> THEN Raise
    ELSE IF DigitCount(phone) < MinPhoneDigits THEN Raise
    ELSE Return(strip(phone))

IsLeap(y) == (y % 4 = 0 /\ y % 100 # 0) \/ y % 400 = 0
DaysIn(y, m) ==
    IF m = 2 THEN (IF IsLeap(y) THEN 29 ELSE 28)
    ELSE IF m \in {4, 6, 9, 11} THEN 30 ELSE 31

\* datetime.strptime(date_str, "%Y-%m-%d") succeeds
Parses(d) ==
    /\ d[1] \in 1..9999
    /\ d[2] \in 1..12
    /\ d[3] \in 1..DaysIn(d[1], d[2])

\* Student._validate_date
validate_date(date_str) ==
    IF date_str = <<>> THEN Raise
    ELSE IF ~Parses(date_str) THEN Raise
    ELSE Return(date_str)

\* gpa < 0.0, gpa > 4.0 on fractions of tenths
Below(q, n) == q[1] < n * q[2]
Above(q, n) == q[1] > n * q[2]

\* Student._validate_gpa
validate_gpa(gpa) ==
    IF Below(gpa, 0) \/ Above(gpa, MaxGpa) THEN Raise
    ELSE Return(gpa)

\* datetime.now().strftime("%Y-%m-%d")
DateOf(day) == <<2024, 6, 1 + day>>

NoStudent == [none |-> TRUE]

\* the processes that call the StudentDatabase of one path at the same time
Writers == {1, 2}
Idle == [w \in Writers |-> [pc |-> "idle"]]

\* Student.__init__
Student(a, now) ==
    LET id == validate_student_id(a.student_id)
        fn == validate_name(a.first_name)
        ln == validate_name(a.last_name)
        em == validate_email(a.email)
        ph == validate_phone(a.phone)
        db == validate_date(a.date_of_birth)
        gp == validate_gpa(a.gpa)
    IN  IF ~id.ok \/ ~fn.ok \/ ~ln.ok \/ ~em.ok \/ ~ph.ok \/ ~db.ok \/ ~gp.ok THEN Raise
        ELSE Return([student_id |-> id.val,
                     first_name |-> fn.val,
                     last_name |-> ln.val,
                     email |-> em.val,
                     phone |-> ph.val,
                     date_of_birth |-> db.val,
                     address |-> a.address,
                     major |-> a.major,
                     gpa |-> gp.val,
                     enrollment_date |-> DateOf(now),
                     courses |-> <<>>,
                     grades |-> <<>>])

(***************************************************************************)
(* Student: courses and grades.  A method call yields the object after the *)
(* call (self), whether it raised, and the value it returned.              *)
(***************************************************************************)
Raised(self) == [raised |-> TRUE, ret |-> FALSE, self |-> self]
Returned(self, v) == [raised |-> FALSE, ret |-> v, self |-> self]

\* list.remove(x): the first occurrence of x removed
RemoveFirst(s, x) ==
    LET i == CHOOSE k \in DOMAIN s : s[k] = x /\ \A j \in 1..(k - 1) : s[j] # x
    IN  SubSeq(s, 1, i - 1) \o SubSeq(s, i + 1, Len(s))

\* del d[k]
DelKey(d, k) == [x \in DOMAIN d \ {k} |-> d[x]]

\* d[k] = v
SetKey(d, k, v) == [x \in DOMAIN d \cup {k} |-> IF x = k THEN v ELSE d[x]]

\* add_course that looks the name up in courses before it strips it
add_course_checks_unstripped(self, course_name) ==
    IF course_name = <<>> THEN Raised(self)
    ELSE IF course_name \notin Range(self.courses)
    THEN Returned([self EXCEPT !.courses = Append(@, strip(course_name))], TRUE)
    ELSE Returned(self, FALSE)

\* Student.add_course
add_course(self, course_name) ==
    IF course_name = <<>> THEN Raised(self)
    ELSE LET name == strip(course_name)
         IN  IF name \notin Range(self.courses)
             THEN Returned([self EXCEPT !.courses = Append(@, name)], TRUE)
             ELSE Returned(self, FALSE)

\* remove_course that forgets the grade of the removed course
remove_course_keeps_grade(self, course_name) ==
    IF course_name \in Range(self.courses)
    THEN Returned([self EXCEPT !.courses = RemoveFirst(@, course_name)], TRUE)
    ELSE Returned(self, FALSE)

\* remove_course that recomputes the gpa from the grades left
remove_course_recomputes(self, course_name) ==
    IF course_name \in Range(self.courses)
    THEN LET g == DelKey(self.grades, course_name)
         IN  Returned([self EXCEPT !.courses = RemoveFirst(@, course_name),
                                   !.grades = g,
                                   !.gpa = IF DOMAIN g = {} THEN Zero ELSE Mean(g)],
                      TRUE)
    ELSE Returned(self, FALSE)

\* Student.remove_course
remove_course(self, course_name) ==
    IF course_name \in Range(self.courses)
    THEN LET removed == [self EXCEPT !.courses = RemoveFirst(@, course_name)]
         IN  IF course_name \in DOMAIN self.grades
             THEN Returned([removed EXCEPT !.grades = DelKey(@, course_name)], TRUE)
             ELSE Returned(removed, TRUE)
    ELSE Returned(self, FALSE)

\* _update_gpa that divides by the number of courses, graded or not
update_gpa_over_courses(self) ==
    IF DOMAIN self.grades # {}
    THEN [self EXCEPT !.gpa = Frac(SumValues(self.grades), Len(self.courses))]
    ELSE [self EXCEPT !.gpa = Zero]

\* Student._update_gpa
update_gpa(self) ==
    IF DOMAIN self.grades # {}
    THEN [self EXCEPT !.gpa = Mean(self.grades)]
    ELSE [self EXCEPT !.gpa = Zero]

\* add_grade that stores the grade before it checks its range
add_grade_stores_first(self, course_name, grade) ==
    IF course_name \notin Range(self.courses) THEN Raised(self)
    ELSE LET stored == [self EXCEPT !.grades = SetKey(@, course_name, grade)]
         IN  IF grade < 0 \/ grade > MaxGrade THEN Raised(stored)
             ELSE Returned(update_gpa(stored), TRUE)

\* Student.add_grade
add_grade(self, course_name, grade) ==
    IF course_name \notin Range(self.courses) THEN Raised(self)
    ELSE IF grade < 0 \/ grade > MaxGrade THEN Raised(self)
    ELSE Returned(update_gpa([self EXCEPT !.grades = SetKey(@, course_name, grade)]), TRUE)

(***************************************************************************)
(* Student: serialization and field updates.                               *)
(***************************************************************************)
\* Student.to_dict
to_dict(self) ==
    [student_id |-> self.student_id,
     first_name |-> self.first_name,
     last_name |-> self.last_name,
     email |-> self.email,
     phone |-> self.phone,
     date_of_birth |-> self.date_of_birth,
     address |-> self.address,
     major |-> self.major,
     gpa |-> self.gpa,
     enrollment_date |-> self.enrollment_date,
     courses |-> self.courses,
     grades |-> self.grades]

\* Student.from_dict
from_dict(data, now) ==
    LET made == Student([student_id |-> data.student_id,
                         first_name |-> data.first_name,
                         last_name |-> data.last_name,
                         email |-> data.email,
                         phone |-> data.phone,
                         date_of_birth |-> data.date_of_birth,
                         address |-> data.address,
                         major |-> data.major,
                         gpa |-> data.gpa], now)
    IN  IF ~made.ok THEN Raise
        ELSE Return([made.val EXCEPT !.enrollment_date = data.enrollment_date,
                                     !.courses = data.courses,
                                     !.grades = data.grades])

\* one item of update_info's loop: setattr after the field's validator
update_field(self, field, value) ==
    IF field \in {"first_name", "last_name"}
    THEN LET r == validate_name(value)
         IN  IF ~r.ok THEN Raised(self)
             ELSE Returned(IF field = "first_name"
                           THEN [self EXCEPT !.first_name = r.val]
                           ELSE [self EXCEPT !.last_name = r.val], TRUE)
    ELSE IF field = "email"
    THEN LET r == validate_email(value)
         IN  IF ~r.ok THEN Raised(self) ELSE Returned([self EXCEPT !.email = r.val], TRUE)
    ELSE IF field = "phone"
    THEN LET r == validate_phone(value)
         IN  IF ~r.ok THEN Raised(self) ELSE Returned([self EXCEPT !.phone = r.val], TRUE)
    ELSE IF field = "address" THEN Returned([self EXCEPT !.address = strip(value)], TRUE)
    ELSE IF field = "major" THEN Returned([self EXCEPT !.major = strip(value)], TRUE)
    ELSE Returned(self, TRUE)

\* Student.update_info: kwargs is the sequence of <<field, value>> items, in order;
\* the fields set before a validator raises stay set on the object
RECURSIVE update_info(_, _)
update_info(self, kwargs) ==
    IF kwargs = <<>> THEN Returned(self, TRUE)
    ELSE LET r == update_field(self, Head(kwargs)[1], Head(kwargs)[2])
         IN  IF r.raised THEN r ELSE update_info(r.self, Tail(kwargs))

(***************************************************************************)
(* StudentDatabase: the disk is the primary JSON file and the backup       *)
(* directory (file name -> contents).  A call yields the disk after the    *)
(* call, whether it raised, the value it returned and whether it rewrote   *)
(* the primary file.                                                       *)
(***************************************************************************)
\* what a verbatim copy of the primary file holds
Contents(d) == [shape |-> d.shape, records |-> d.file]

\* StudentDatabase._load_data: a missing file and text that is not JSON load as []
load_data(d) == IF d.shape = "list" THEN d.file ELSE <<>>

\* json.load gave something a for loop walks; a file that holds a JSON number
\* loads as the number, and the loop over it raises TypeError
Iterates(d) == d.shape # "number"

\* _ensure_database_exists that writes [] whether the file exists or not
ensure_database_exists_always(d) == [d EXCEPT !.file = <<>>, !.shape = "list"]

\* StudentDatabase._ensure_database_exists: json.dump([], f) when no file exists
ensure_database_exists(d) ==
    IF d.shape = "missing" THEN [d EXCEPT !.file = <<>>, !.shape = "list"] ELSE d

\* StudentDatabase.__init__; _ensure_backup_dir makes the directory when it is
\* absent and leaves the backup files of a directory that exists
db_init(d) == ensure_database_exists(d)

\* datetime.now().strftime("%Y%m%d_%H%M%S"): the name of the backup file
Stamp(now) == now

\* StudentDatabase._create_backup: nothing to copy when the file is missing;
\* an error while copying is caught and leaves the backup file unwritten
create_backup(d, now) ==
    IF d.shape = "missing" THEN d
    ELSE IF d.fault = "backup" THEN d
    ELSE [d EXCEPT !.backups = SetKey(@, Stamp(now), Contents(d))]

\* _save_data that rewrites the primary file first and backs it up after
save_data_backs_up_late(d, data, now) ==
    IF d.fault = "open" THEN [disk |-> create_backup(d, now), ret |-> FALSE]
    ELSE IF d.fault = "dump"
    THEN [disk |-> create_backup([d EXCEPT !.file = <<>>, !.shape = "torn"], now),
          ret |-> FALSE]
    ELSE [disk |-> create_backup([d EXCEPT !.file = data, !.shape = "list"], now),
          ret |-> TRUE]

\* StudentDatabase._save_data: open(db_file, 'w') truncates the primary file,
\* json.dump writes into it; an error in open leaves the file as it was, an
\* error in json.dump or in closing the file leaves torn text, and both are
\* caught and returned as False
save_data(d, data, now) ==
    LET b == create_backup(d, now)
    IN  IF d.fault = "open" THEN [disk |-> b, ret |-> FALSE]
        ELSE IF d.fault = "dump"
        THEN [disk |-> [b EXCEPT !.file = <<>>, !.shape = "torn"], ret |-> FALSE]
        ELSE [disk |-> [b EXCEPT !.file = data, !.shape = "list"], ret |-> TRUE]

\* the indexes of the dictionaries whose student_id is id
Matches(data, id) == {i \in DOMAIN data : data[i].student_id = id}

\* the first of them in file order
First(S) == CHOOSE i \in S : \A j \in S : i <= j

DbResult(d, raised, ret, saved) ==
    [disk |-> d, raised |-> raised, ret |-> ret, saved |-> saved]

\* add_student without the check for an existing student_id
db_add_student_unchecked(d, s, now) ==
    LET w == save_data(d, Append(load_data(d), to_dict(s)), now)
    IN  DbResult(w.disk, FALSE, w.ret, TRUE)

\* add_student that overwrites the stored record of an existing student_id
db_add_student_overwrites(d, s, now) ==
    LET data == load_data(d)
        hit == Matches(data, s.student_id)
        w == save_data(d, IF hit = {} THEN Append(data, to_dict(s))
                          ELSE [data EXCEPT ![First(hit)] = to_dict(s)], now)
    IN  DbResult(w.disk, FALSE, hit = {}, TRUE)

\* add_student that puts the new record in front: data.insert(0, ...)
db_add_student_in_front(d, s, now) ==
    LET data == load_data(d)
    IN  IF ~Iterates(d) THEN DbResult(d, TRUE, FALSE, FALSE)
        ELSE IF Matches(data, s.student_id) # {} THEN DbResult(d, FALSE, FALSE, FALSE)
        ELSE LET w == save_data(d, <<to_dict(s)>> \o data, now)
             IN  DbResult(w.disk, FALSE, w.ret, TRUE)

\* StudentDatabase.add_student
db_add_student(d, s, now) ==
    LET data == load_data(d)
    IN  IF ~Iterates(d) THEN DbResult(d, TRUE, FALSE, FALSE)
        ELSE IF Matches(data, s.student_id) # {} THEN DbResult(d, FALSE, FALSE, FALSE)
        ELSE LET w == save_data(d, Append(data, to_dict(s)), now)
             IN  DbResult(w.disk, FALSE, w.ret, TRUE)

\* StudentDatabase.get_student: the Student, NoStudent for None, or it raises
db_get_student(d, student_id, now) ==
    LET data == load_data(d)
        hit == Matches(data, upper(student_id))
    IN  IF ~Iterates(d) THEN Raise
        ELSE IF hit = {} THEN Return(NoStudent)
        ELSE from_dict(data[First(hit)], now)

\* update_student that appends the record when its student_id is not stored
db_update_student_upsert(d, s, now) ==
    LET data == load_data(d)
        hit == Matches(data, s.student_id)
        w == save_data(d, IF hit = {} THEN Append(data, to_dict(s))
                          ELSE [data EXCEPT ![First(hit)] = to_dict(s)], now)
    IN  DbResult(w.disk, FALSE, w.ret, TRUE)

\* update_student that replaces data[i - 1], as Python indexes it: the record
\* before the match, and the last record for the first match
db_update_student_before(d, s, now) ==
    LET data == load_data(d)
        hit == Matches(data, s.student_id)
    IN  IF hit = {} THEN DbResult(d, FALSE, FALSE, FALSE)
        ELSE LET i == IF First(hit) = 1 THEN Len(data) ELSE First(hit) - 1
                 w == save_data(d, [data EXCEPT ![i] = to_dict(s)], now)
             IN  DbResult(w.disk, FALSE, w.ret, TRUE)

\* StudentDatabase.update_student
db_update_student(d, s, now) ==
    LET data == load_data(d)
        hit == Matches(data, s.student_id)
    IN  IF ~Iterates(d) THEN DbResult(d, TRUE, FALSE, FALSE)
        ELSE IF hit = {} THEN DbResult(d, FALSE, FALSE, FALSE)
        ELSE LET w == save_data(d, [data EXCEPT ![First(hit)] = to_dict(s)], now)
             IN  DbResult(w.disk, FALSE, w.ret, TRUE)

\* delete_student that deletes data[i - 1], as Python indexes it: the record
\* before the match, and the last record for the first match
db_delete_student_before(d, student_id, now) ==
    LET data == load_data(d)
        hit == Matches(data, upper(student_id))
    IN  IF hit = {} THEN DbResult(d, FALSE, FALSE, FALSE)
        ELSE LET i == IF First(hit) = 1 THEN Len(data) ELSE First(hit) - 1
                 w == save_data(d, SubSeq(data, 1, i - 1) \o SubSeq(data, i + 1, Len(data)),
                                now)
             IN  DbResult(w.disk, FALSE, w.ret, TRUE)

\* StudentDatabase.delete_student
db_delete_student(d, student_id, now) ==
    LET data == load_data(d)
        hit == Matches(data, upper(student_id))
    IN  IF ~Iterates(d) THEN DbResult(d, TRUE, FALSE, FALSE)
        ELSE IF hit = {} THEN DbResult(d, FALSE, FALSE, FALSE)
        ELSE LET i == First(hit)
                 w == save_data(d, SubSeq(data, 1, i - 1) \o SubSeq(data, i + 1, Len(data)),
                                now)
             IN  DbResult(w.disk, FALSE, w.ret, TRUE)

\* StudentDatabase.get_all_students: the records that from_dict accepts, in
\* file order; a record it raises on is skipped
Loaded(made) == IF made.ok THEN <<made.val>> ELSE <<>>

\* get_all_students whose loop ends at the first record that from_dict raises on
LoadAllUntilRaise(data, now) ==
    LET bad == {i \in DOMAIN data : ~from_dict(data[i], now).ok}
        n == IF bad = {} THEN Len(data) ELSE First(bad) - 1
    IN  [i \in 1..n |-> from_dict(data[i], now).val]

RECURSIVE LoadAll(_, _)
LoadAll(data, now) ==
    IF data = <<>> THEN <<>>
    ELSE Loaded(from_dict(Head(data), now)) \o LoadAll(Tail(data), now)

db_get_all_students(d, now) == LoadAll(load_data(d), now)

(***************************************************************************)
(* StudentDatabase.search_students.  criteria is the sequence of <<key,     *)
(* value>> items in the order of the keyword arguments; a value carries its *)
(* Python type: PyStr(s), PyFloat(q) (q a fraction of tenths), PyInt(n),    *)
(* with its text when it is a str and its number otherwise.                *)
(***************************************************************************)
PyStr(s) == [type |-> "str", text |-> s, num |-> <<0, 1>>]
PyFloat(q) == [type |-> "float", text |-> <<>>, num |-> q]
PyInt(n) == [type |-> "int", text |-> <<>>, num |-> <<n, 1>>]

\* Student.get_full_name
get_full_name(self) == self.first_name \o <<" ">> \o self.last_name

\* Student.get_age
get_age(self, now) ==
    LET birth == self.date_of_birth
        day == DateOf(now)
        age == day[1] - birth[1]
    IN  IF day[2] < birth[2] \/ (day[2] = birth[2] /\ day[3] < birth[3])
        THEN age - 1
        ELSE age

\* sub in s, for two str
Contains(sub, s) ==
    \E i \in 1..(Len(s) - Len(sub) + 1) : SubSeq(s, i, i + Len(sub) - 1) = sub

\* p <= q on fractions, where the code has <
LessOrEqual(p, q) == p[1] * q[2] <= q[1] * p[2]

\* p < q, p = q on fractions
Less(p, q) == p[1] * q[2] < q[1] * p[2]
Same(p, q) == p[1] * q[2] = q[1] * p[2]

\* the number a str of decimal digits denotes
RECURSIVE DigitsValue(_)
DigitsValue(s) ==
    IF s = <<>> THEN 0
    ELSE 10 * DigitsValue(SubSeq(s, 1, Len(s) - 1))
         + (CHOOSE n \in 0..9 : ToString(n) = s[Len(s)])

RECURSIVE Power10(_)
Power10(n) == IF n = 0 THEN 1 ELSE 10 * Power10(n - 1)

\* float(value), in tenths: of a str, the decimal numeral it holds between
\* whitespace (digits with at most one point), and ValueError for a str that
\* is no numeral; signs and exponents are not among the inputs
FloatOf(value) ==
    IF value.type = "float" THEN Return(value.num)
    ELSE IF value.type = "int" THEN Return(Frac(10 * value.num[1], 1))
    ELSE LET s == strip(value.text)
             points == {i \in DOMAIN s : s[i] = "."}
             point == IF points = {} THEN Len(s) + 1 ELSE CHOOSE i \in points : TRUE
             whole == SubSeq(s, 1, point - 1)
             part == SubSeq(s, point + 1, Len(s))
         IN  IF \/ DigitCount(s) = 0
                \/ Cardinality(points) > 1
                \/ DigitCount(s) + Cardinality(points) # Len(s)
             THEN Raise
             ELSE Return(Frac(10 * DigitsValue(whole \o part), Power10(Len(part))))

\* int(value): a float is truncated, a str must be decimal digits between
\* whitespace
IntOf(value) ==
    IF value.type = "int" THEN Return(value.num[1])
    ELSE IF value.type = "float" THEN Return(value.num[1] \div (10 * value.num[2]))
    ELSE LET s == strip(value.text)
         IN  IF s = <<>> \/ DigitCount(s) # Len(s) THEN Raise
             ELSE Return(DigitsValue(s))

\* the str attributes of a Student that search_students reaches by getattr,
\* and some of its methods, which hasattr finds too
StrAttributes == {"student_id", "first_name", "last_name", "phone", "address"}
MethodAttributes == {"get_age", "to_dict"}

\* value.lower() in text.lower(); AttributeError when value is no str
TextCriterion(value, text) ==
    IF value.type # "str" THEN "raise"
    ELSE IF Contains(lower(value.text), lower(text)) THEN "match"
    ELSE "miss"

\* one item of the loop over criteria.items(): "miss" sets match = False and
\* breaks, "raise" is the exception the comparison raises
Criterion(self, key, value, now) ==
    IF key = "name" THEN TextCriterion(value, get_full_name(self))
    ELSE IF key = "major" THEN TextCriterion(value, self.major)
    ELSE IF key = "email" THEN TextCriterion(value, self.email)
    ELSE IF key = "gpa_min"
    THEN LET f == FloatOf(value)
         IN  IF ~f.ok THEN "raise" ELSE IF Less(self.gpa, f.val) THEN "miss" ELSE "match"
    ELSE IF key = "gpa_max"
    THEN LET f == FloatOf(value)
         IN  IF ~f.ok THEN "raise" ELSE IF Less(f.val, self.gpa) THEN "miss" ELSE "match"
    ELSE IF key = "age_min"
    THEN LET n == IntOf(value)
         IN  IF ~n.ok THEN "raise" ELSE IF get_age(self, now) < n.val THEN "miss" ELSE "match"
    ELSE IF key = "age_max"
    THEN LET n == IntOf(value)
         IN  IF ~n.ok THEN "raise" ELSE IF get_age(self, now) > n.val THEN "miss" ELSE "match"
    ELSE IF key \in StrAttributes
    THEN IF value.type = "str"
         THEN (IF Contains(lower(value.text), lower(self[key])) THEN "match" ELSE "miss")
         ELSE "miss"
    ELSE IF key = "gpa"
    THEN IF value.type = "str" THEN "miss"
         ELSE IF Same(self.gpa, FloatOf(value).val) THEN "match" ELSE "miss"
    ELSE IF key \in MethodAttributes THEN "miss"
    ELSE "match"

\* the loop with `match = ...` assigned by every item and no break: the last
\* item decides
VerdictOfLastItem(self, criteria, now) ==
    IF criteria = <<>> THEN "match"
    ELSE Criterion(self, criteria[Len(criteria)][1], criteria[Len(criteria)][2], now)

\* the loop over criteria.items() for one student
RECURSIVE Verdict(_, _, _)
Verdict(self, criteria, now) ==
    IF criteria = <<>> THEN "match"
    ELSE LET c == Criterion(self, Head(criteria)[1], Head(criteria)[2], now)
         IN  IF c = "match" THEN Verdict(self, Tail(criteria), now) ELSE c

\* the loop over all_students: matching_students, unless an item raises
MatchingStudents(all_students, criteria, now) ==
    LET Matching(s) == Verdict(s, criteria, now) = "match"
    IN  IF \E i \in DOMAIN all_students :
                Verdict(all_students[i], criteria, now) = "raise"
        THEN Raise
        ELSE Return(SelectSeq(all_students, Matching))

\* StudentDatabase.search_students
db_search_students(d, criteria, now) ==
    IF ~Iterates(d) THEN Raise
    ELSE MatchingStudents(db_get_all_students(d, now), criteria, now)

(***************************************************************************)
(* StudentDatabase.get_statistics.  average_gpa is a number of hundredths. *)
(***************************************************************************)
Undeclared == <<"U", "n", "d", "e", "c", "l", "a", "r", "e", "d">>

AgeRanges == {"18-20", "21-25", "26-30", "30+"}

\* the chain with `age <= 20` for its first test
AgeRangeNoLowerBound(age) ==
    IF age <= 20 THEN "18-20"
    ELSE IF 21 <= age /\ age <= 25 THEN "21-25"
    ELSE IF 26 <= age /\ age <= 30 THEN "26-30"
    ELSE "30+"

\* the if/elif chain that picks the age range of one student
AgeRange(age) ==
    IF 18 <= age /\ age <= 20 THEN "18-20"
    ELSE IF 21 <= age /\ age <= 25 THEN "21-25"
    ELSE IF 26 <= age /\ age <= 30 THEN "26-30"
    ELSE "30+"

\* p + q on fractions
Plus(p, q) == Frac(p[1] * q[2] + q[1] * p[2], p[2] * q[2])

\* sum(student.gpa for student in students if student.gpa > 0)
RECURSIVE TotalGpa(_)
TotalGpa(students) ==
    IF students = <<>> THEN Zero
    ELSE IF Less(Zero, Head(students).gpa)
    THEN Plus(Head(students).gpa, TotalGpa(Tail(students)))
    ELSE TotalGpa(Tail(students))

\* round(q, 2) of q tenths, in hundredths: the nearest hundredth; when q is
\* halfway between two, the binary float nearest to q decides, up or down
Round2(q, up) ==
    LET twice == (20 * q[1]) \div q[2]
        exact == (20 * q[1]) % q[2] = 0
    IN  IF exact /\ twice % 2 = 1
        THEN (IF up THEN (twice + 1) \div 2 ELSE (twice - 1) \div 2)
        ELSE (twice + 1) \div 2

\* student.major or 'Undeclared'
MajorOf(self) == IF self.major = <<>> THEN Undeclared ELSE self.major

\* the dictionary that get_statistics returns for the students it loaded
Statistics(students, now, up) ==
    LET with_gpa == {i \in DOMAIN students : Less(Zero, students[i].gpa)}
        total_gpa == TotalGpa(students)
        names == {MajorOf(students[i]) : i \in DOMAIN students}
    IN  IF students = <<>>
        THEN [total_students |-> 0, average_gpa |-> 0,
              majors |-> <<>>, age_distribution |-> <<>>]
        ELSE [total_students |-> Len(students),
              average_gpa |->
                  IF with_gpa # {}
                  THEN Round2(Frac(total_gpa[1], total_gpa[2] * Cardinality(with_gpa)), up)
                  ELSE 0,
              majors |->
                  [m \in names |->
                      Cardinality({i \in DOMAIN students : MajorOf(students[i]) = m})],
              age_distribution |->
                  [r \in AgeRanges |->
                      Cardinality({i \in DOMAIN students :
                                      AgeRange(get_age(students[i], now)) = r})]]

\* StudentDatabase.get_statistics
db_get_statistics(d, now, up) ==
    IF ~Iterates(d) THEN Raise
    ELSE Return(Statistics(db_get_all_students(d, now), now, up))

(***************************************************************************)
(* StudentManager: each use-case catches what the calls below it raise and *)
(* returns (success, message); ret is success.                             *)
(***************************************************************************)
Failed(d) == DbResult(d, FALSE, FALSE, FALSE)

\* StudentManager.add_student
mgr_add_student(d, student_data, now) ==
    LET made == Student(student_data, now)
    IN  IF ~made.ok THEN Failed(d)
        ELSE LET existing == db_get_student(d, made.val.student_id, now)
             IN  IF ~existing.ok THEN Failed(d)
                 ELSE IF existing.val # NoStudent THEN Failed(d)
                 ELSE db_add_student(d, made.val, now)

\* update_student that saves the Student as update_info left it when it raised
mgr_update_student_saves_partial(d, student_id, update_data, now) ==
    LET got == db_get_student(d, student_id, now)
    IN  IF ~got.ok THEN Failed(d)
        ELSE IF got.val = NoStudent THEN Failed(d)
        ELSE LET r == update_info(got.val, update_data)
                 w == db_update_student(d, r.self, now)
             IN  IF r.raised THEN [w EXCEPT !.ret = FALSE] ELSE w

\* StudentManager.update_student
mgr_update_student(d, student_id, update_data, now) ==
    LET got == db_get_student(d, student_id, now)
    IN  IF ~got.ok THEN Failed(d)
        ELSE IF got.val = NoStudent THEN Failed(d)
        ELSE LET r == update_info(got.val, update_data)
             IN  IF r.raised THEN Failed(d) ELSE db_update_student(d, r.self, now)

\* StudentManager.delete_student
mgr_delete_student(d, student_id, now) ==
    LET got == db_get_student(d, student_id, now)
    IN  IF ~got.ok THEN Failed(d)
        ELSE IF got.val = NoStudent THEN Failed(d)
        ELSE db_delete_student(d, student_id, now)

\* add_course_to_student that saves the student whatever add_course returned
mgr_add_course_always_saves(d, student_id, course_name, now) ==
    LET got == db_get_student(d, student_id, now)
    IN  IF ~got.ok THEN Failed(d)
        ELSE IF got.val = NoStudent THEN Failed(d)
        ELSE LET r == add_course(got.val, course_name)
                 w == db_update_student(d, r.self, now)
             IN  IF r.raised THEN Failed(d)
                 ELSE IF r.ret THEN w
                 ELSE [w EXCEPT !.ret = FALSE]

\* StudentManager.add_course_to_student
mgr_add_course(d, student_id, course_name, now) ==
    LET got == db_get_student(d, student_id, now)
    IN  IF ~got.ok THEN Failed(d)
        ELSE IF got.val = NoStudent THEN Failed(d)
        ELSE LET r == add_course(got.val, course_name)
             IN  IF r.raised THEN Failed(d)
                 ELSE IF r.ret THEN db_update_student(d, r.self, now)
                 ELSE Failed(d)

\* StudentManager.remove_course_from_student
mgr_remove_course(d, student_id, course_name, now) ==
    LET got == db_get_student(d, student_id, now)
    IN  IF ~got.ok THEN Failed(d)
        ELSE IF got.val = NoStudent THEN Failed(d)
        ELSE LET r == remove_course(got.val, course_name)
             IN  IF r.ret THEN db_update_student(d, r.self, now) ELSE Failed(d)

\* StudentManager.add_grade_to_student
mgr_add_grade(d, student_id, course_name, grade, now) ==
    LET got == db_get_student(d, student_id, now)
    IN  IF ~got.ok THEN Failed(d)
        ELSE IF got.val = NoStudent THEN Failed(d)
        ELSE LET r == add_grade(got.val, course_name, grade)
             IN  IF r.raised THEN Failed(d)
                 ELSE IF r.ret THEN db_update_student(d, r.self, now)
                 ELSE Failed(d)

\* list.sort(key=lambda x: x.gpa, reverse=True) that puts a student ahead of
\* those of the same gpa
InsertByGpaAhead(sorted, x) ==
    LET k == Cardinality({i \in DOMAIN sorted : Less(x.gpa, sorted[i].gpa)})
    IN  SubSeq(sorted, 1, k) \o <<x>> \o SubSeq(sorted, k + 1, Len(sorted))

\* list.sort(key=lambda x: x.gpa, reverse=True), one student at a time: x goes
\* behind the students of a higher or the same gpa (the sort is stable, also
\* in reverse)
InsertByGpa(sorted, x) ==
    LET k == Cardinality({i \in DOMAIN sorted : ~Less(sorted[i].gpa, x.gpa)})
    IN  SubSeq(sorted, 1, k) \o <<x>> \o SubSeq(sorted, k + 1, Len(sorted))

RECURSIVE SortByGpa(_)
SortByGpa(students) ==
    IF students = <<>> THEN <<>>
    ELSE InsertByGpa(SortByGpa(SubSeq(students, 1, Len(students) - 1)),
                     students[Len(students)])

\* students[:limit]; a negative limit counts from the end
Slice(students, limit) ==
    IF limit >= Len(students) THEN students
    ELSE IF limit >= 0 THEN SubSeq(students, 1, limit)
    ELSE IF Len(students) + limit > 0 THEN SubSeq(students, 1, Len(students) + limit)
    ELSE <<>>

\* the students with gpa > 0 of those loaded, sorted and cut
TopStudents(all_students, limit) ==
    LET WithGpa(s) == Less(Zero, s.gpa)
    IN  Slice(SortByGpa(SelectSeq(all_students, WithGpa)), limit)

\* StudentManager.get_top_students: nothing catches what get_all_students raises
mgr_get_top_students(d, limit, now) ==
    IF ~Iterates(d) THEN Raise
    ELSE Return(TopStudents(db_get_all_students(d, now), limit))

\* what a use-case that reads hands back: val is the first of the pair
Outcome(raised, val) == [raised |-> raised, val |-> val]

\* get_student without its try: what get_student of the database raises
\* reaches the caller
mgr_get_student_uncaught(d, student_id, now) ==
    LET got == db_get_student(d, student_id, now)
    IN  IF ~got.ok THEN Outcome(TRUE, NoStudent) ELSE Outcome(FALSE, got.val)

\* StudentManager.get_student: (student, message); NoStudent is None
mgr_get_student(d, student_id, now) ==
    LET got == db_get_student(d, student_id, now)
    IN  IF ~got.ok THEN Outcome(FALSE, NoStudent) ELSE Outcome(FALSE, got.val)

\* StudentManager.search_students: (students, message)
mgr_search_students(d, search_criteria, now) ==
    LET students == db_search_students(d, search_criteria, now)
    IN  IF ~students.ok THEN Outcome(FALSE, <<>>) ELSE Outcome(FALSE, students.val)

\* StudentManager.get_student_transcript: (transcript, message)
mgr_get_student_transcript(d, student_id, now) ==
    LET got == db_get_student(d, student_id, now)
    IN  IF ~got.ok THEN Outcome(FALSE, NoStudent)
        ELSE IF got.val = NoStudent THEN Outcome(FALSE, NoStudent)
        ELSE Outcome(FALSE,
                 [student_info |-> [id |-> got.val.student_id,
                                    name |-> get_full_name(got.val),
                                    major |-> got.val.major,
                                    enrollment_date |-> got.val.enrollment_date],
                  courses |-> got.val.courses,
                  grades |-> got.val.grades,
                  overall_gpa |-> got.val.gpa,
                  total_courses |-> Len(got.val.courses),
                  completed_courses |-> Cardinality(DOMAIN got.val.grades)])

\* StudentManager.get_statistics: (stats, message); <<>> is {}
mgr_get_statistics(d, now, up) ==
    LET stats == db_get_statistics(d, now, up)
    IN  IF ~stats.ok THEN Outcome(FALSE, <<>>) ELSE Outcome(FALSE, stats.val)

(***************************************************************************)
(* The inputs the model draws from.                                        *)
(***************************************************************************)
IdS01 == <<"s", "0", "1">>
IdS02 == <<"S", "0", "2">>
IdPadded == <<"a", " ", " ">>
IdShort == <<"a", "b">>

NameAlice == <<"a", "l", "i", "c", "e">>
NameLee == <<" ", "l", "e", "e">>
NameBlank == <<" ">>
EmailAlice == <<"A", "l", "@", "u", ".", "i", "o">>
EmailBad == <<"a", "l", "@", "u">>
PhoneGood == <<"5", "5", "5", "-", "1", "2", "3", "-", "4", "5", "6", "7">>
PhoneBad == <<"5", "5", "5">>
BirthGood == <<2001, 3, 15>>
BirthBad == <<2001, 13, 40>>
MajorCs == <<"c", "s">>

CourseCs == <<"c", "s">>
CourseCsPadded == <<"c", "s", " ">>
CourseAi == <<"a", "i">>
CourseInputs == {CourseCs, CourseCsPadded, CourseAi, <<>>}
GradeInputs == {-5, 0, 20, 35, 40, 45}
GpaInputs == {Frac(0, 1), Frac(35, 1), Frac(45, 1), NaN}

\* the keyword arguments of Student(...)
Args(id, first, email, phone, birth, major, gpa) ==
    [student_id |-> id, first_name |-> first, last_name |-> NameLee,
     email |-> email, phone |-> phone, date_of_birth |-> birth,
     address |-> <<>>, major |-> major, gpa |-> gpa]

EntityArgs ==
    {Args(id, NameAlice, EmailAlice, PhoneGood, BirthGood, MajorCs, gpa) :
        id \in {IdS01, IdShort}, gpa \in GpaInputs}
    \cup {Args(IdPadded, NameAlice, EmailAlice, PhoneGood, BirthGood, MajorCs, Frac(0, 1))}

(***************************************************************************)
(* A Student object on its own: construction and its course and grade      *)
(* methods, called in any order.                                           *)
(***************************************************************************)
Init ==
    /\ file = <<>>
    /\ shape = "list"
    /\ backups = <<>>
    /\ today = 0
    /\ student = NoStudent
    /\ writer = Idle
    /\ last = [op |-> "none"]

Called(op, course, grade, r) ==
    [op |-> op, course |-> course, grade |-> grade,
     raised |-> r.raised, ret |-> r.ret, before |-> student]

Construct ==
    \E a \in EntityArgs :
        LET r == Student(a, today)
        IN  /\ student' = IF r.ok THEN r.val ELSE student
            /\ last' = [op |-> "Student", raised |-> ~r.ok, args |-> a, before |-> student]
            /\ UNCHANGED <<file, shape, backups, today, writer>>

AddCourse ==
    /\ student # NoStudent
    /\ \E c \in CourseInputs :
        LET r == add_course(student, c)
        IN  /\ student' = r.self
            /\ last' = Called("add_course", c, 0, r)
    /\ UNCHANGED <<file, shape, backups, today, writer>>

RemoveCourse ==
    /\ student # NoStudent
    /\ \E c \in CourseInputs :
        LET r == remove_course(student, c)
        IN  /\ student' = r.self
            /\ last' = Called("remove_course", c, 0, r)
    /\ UNCHANGED <<file, shape, backups, today, writer>>

AddGrade ==
    /\ student # NoStudent
    /\ \E c \in CourseInputs, g \in GradeInputs :
        LET r == add_grade(student, c, g)
        IN  /\ student' = r.self
            /\ last' = Called("add_grade", c, g, r)
    /\ UNCHANGED <<file, shape, backups, today, writer>>

\* the clock moves on to the next day
Tick ==
    /\ today < MaxDay
    /\ today' = today + 1
    /\ last' = [op |-> "tick"]
    /\ UNCHANGED <<file, shape, backups, student, writer>>

NextEntity == Construct \/ AddCourse \/ RemoveCourse \/ AddGrade \/ Tick

SpecEntity == Init /\ [][NextEntity]_vars

(***************************************************************************)
(* A Student object whose fields are updated too: construction, the course *)
(* and grade methods and update_info, called in any order on one day.      *)
(***************************************************************************)
InfoInputs ==
    { << <<"first_name", <<" ", "b", "o", "b", " ">> >>, <<"major", <<" ", "a", "i">> >>,
         <<"email", <<"B", "@", "u", ".", "i", "o", "\n">> >>, <<"student_id", IdS02>> >>,
      << <<"phone", <<" ", "5", "5", "5", "1", "2", "3", "4", "5", "6", "7">> >>,
         <<"last_name", NameBlank>> >> }

UpdateInfo ==
    /\ student # NoStudent
    /\ \E data \in InfoInputs :
        LET r == update_info(student, data)
        IN  /\ student' = r.self
            /\ last' = [op |-> "update_info", data |-> data, raised |-> r.raised,
                        ret |-> r.ret, before |-> student]
    /\ UNCHANGED <<file, shape, backups, today, writer>>

NextInfo == Construct \/ AddCourse \/ RemoveCourse \/ AddGrade \/ UpdateInfo

SpecInfo == Init /\ [][NextInfo]_vars

(***************************************************************************)
(* The store in use: Manager use-cases and direct StudentDatabase calls,   *)
(* in any order, on one file.  Only successful adds lengthen the file, and *)
(* they stop at MaxStudents records.                                       *)
(***************************************************************************)
NameBob == <<"b", "o", "b">>
IdLowerS01 == <<"s", "0", "1">>
IdUpperS01 == <<"S", "0", "1">>
IdLowerS02 == <<"s", "0", "2">>
IdLowerA == <<"a">>

StoreArgs ==
    {Args(id, NameAlice, EmailAlice, PhoneGood, BirthGood, MajorCs, Frac(0, 1)) :
        id \in {IdS01, IdS02, IdPadded, IdShort}}

\* the Student objects a caller hands to add_student and update_student:
\* freshly built ones, and for one id also one with a graded course
Graded(s) == add_grade(add_course(s, CourseCs).self, CourseCs, 35).self
ObjectKinds == {<<a, g>> \in StoreArgs \X BOOLEAN : g => a.student_id = IdS02}
Object(kind, now) ==
    LET made == Student(kind[1], now)
    IN  IF ~made.ok THEN NoStudent
        ELSE IF kind[2] THEN Graded(made.val) ELSE made.val

LookupIds == {IdLowerS01, IdUpperS01, IdLowerS02, IdLowerA}
ManagerIds == {IdLowerS01, IdLowerA}
UpdateInputs ==
    { << <<"first_name", NameBob>> >>,
      << <<"first_name", NameBob>>, <<"email", EmailBad>> >> }

\* the disk as a call finds it; fault is the I/O error its next write meets
Faults == {"none", "backup", "open", "dump"}
DiskWith(f) == [file |-> file, shape |-> shape, backups |-> backups, fault |-> f]
Disk == DiskWith("none")

HasRoom == Len(file) < MaxStudents

\* what a call leaves behind: the disk it wrote and the record of the call
Leaves(op, id, obj, r) ==
    /\ file' = r.disk.file
    /\ shape' = r.disk.shape
    /\ backups' = r.disk.backups
    /\ last' = [op |-> op, id |-> id, obj |-> obj, raised |-> r.raised,
                ret |-> r.ret, saved |-> r.saved, before |-> Disk]
    /\ UNCHANGED <<today, student, writer>>

MgrAdd ==
    \E a \in StoreArgs :
        LET made == Student(a, today)
            r == mgr_add_student(Disk, a, today)
        IN  /\ r.ret => HasRoom
            /\ Leaves("mgr_add", a.student_id, IF made.ok THEN made.val ELSE NoStudent, r)

MgrUpdate ==
    \E id \in ManagerIds, data \in UpdateInputs :
        Leaves("mgr_update", id, NoStudent, mgr_update_student(Disk, id, data, today))

MgrDelete ==
    \E id \in ManagerIds :
        Leaves("mgr_delete", id, NoStudent, mgr_delete_student(Disk, id, today))

MgrAddCourse ==
    \E id \in ManagerIds :
        Leaves("mgr_add_course", id, NoStudent,
               mgr_add_course(Disk, id, CourseCs, today))

MgrRemoveCourse ==
    \E id \in ManagerIds :
        Leaves("mgr_remove_course", id, NoStudent,
               mgr_remove_course(Disk, id, CourseCs, today))

MgrAddGrade ==
    \E id \in ManagerIds, g \in {20, 45} :
        Leaves("mgr_add_grade", id, NoStudent, mgr_add_grade(Disk, id, CourseCs, g, today))

DbAdd ==
    \E kind \in ObjectKinds :
        LET s == Object(kind, today)
            r == db_add_student(Disk, s, today)
        IN  /\ s # NoStudent
            /\ r.ret => HasRoom
            /\ Leaves("db_add", s.student_id, s, r)

DbUpdate ==
    \E kind \in ObjectKinds :
        LET s == Object(kind, today)
        IN  /\ s # NoStudent
            /\ Leaves("db_update", s.student_id, s, db_update_student(Disk, s, today))

DbDelete ==
    \E id \in LookupIds :
        Leaves("db_delete", id, NoStudent, db_delete_student(Disk, id, today))

AddOps == {"mgr_add", "db_add"}
DeleteOps == {"mgr_delete", "db_delete"}

\* the call a get_student follows, when that call is an add or a delete
\* that succeeded
Followed ==
    IF last.op \in AddOps \cup DeleteOps /\ last.ret
    THEN [op |-> last.op, id |-> last.id, obj |-> last.obj]
    ELSE [op |-> "other", id |-> <<>>, obj |-> NoStudent]

DbGet ==
    \E id \in LookupIds :
        LET r == db_get_student(Disk, id, today)
        IN  /\ last' = [op |-> "db_get", id |-> id, obj |-> NoStudent,
                        raised |-> ~r.ok, ret |-> r.ok,
                        val |-> IF r.ok THEN r.val ELSE NoStudent,
                        saved |-> FALSE, after |-> Followed, before |-> Disk]
            /\ UNCHANGED <<file, shape, backups, today, student, writer>>

Next ==
    \/ MgrAdd \/ MgrUpdate \/ MgrDelete
    \/ MgrAddCourse \/ MgrRemoveCourse \/ MgrAddGrade
    \/ DbAdd \/ DbUpdate \/ DbDelete \/ DbGet

Spec == Init /\ [][Next]_vars

(***************************************************************************)
(* The store on a disk that fails: StudentDatabase writes that meet I/O    *)
(* errors, a primary file that is removed from outside, and the clock.     *)
(***************************************************************************)
\* the Student objects handed to the calls, built on day 0: one of each of
\* two ids, and of one id also one with a graded course
DiskKinds == {kind \in ObjectKinds : kind[1].student_id \in {IdS01, IdS02}}
DiskObjects == {Object(kind, 0) : kind \in DiskKinds}
DiskIds == {IdLowerS01, IdLowerS02}

\* what a call leaves behind on this disk: the primary file as the call found
\* it, the I/O error its write met and the record of the call
WroteOn(f, op, id, obj, r) ==
    /\ file' = r.disk.file
    /\ shape' = r.disk.shape
    /\ backups' = r.disk.backups
    /\ last' = [op |-> op, id |-> id, obj |-> obj, raised |-> r.raised,
                ret |-> r.ret, saved |-> r.saved, fault |-> f,
                before |-> Contents(Disk)]
    /\ UNCHANGED <<today, student, writer>>

FaultyAdd ==
    \E s \in DiskObjects, f \in Faults :
        LET r == db_add_student(DiskWith(f), s, today)
        IN  /\ r.ret => HasRoom
            /\ WroteOn(f, "db_add", s.student_id, s, r)

FaultyUpdate ==
    \E s \in DiskObjects, f \in Faults :
        WroteOn(f, "db_update", s.student_id, s, db_update_student(DiskWith(f), s, today))

FaultyDelete ==
    \E id \in DiskIds, f \in Faults :
        WroteOn(f, "db_delete", id, NoStudent, db_delete_student(DiskWith(f), id, today))

\* the primary file is removed by something other than the program
Unlink ==
    /\ shape # "missing"
    /\ file' = <<>>
    /\ shape' = "missing"
    /\ last' = [op |-> "unlink"]
    /\ UNCHANGED <<backups, today, student, writer>>

\* another StudentDatabase is constructed on the same path
Reopen ==
    LET d == db_init(Disk)
    IN  /\ file' = d.file
        /\ shape' = d.shape
        /\ backups' = d.backups
        /\ last' = [op |-> "init", before |-> Contents(Disk), backed |-> backups]
        /\ UNCHANGED <<today, student, writer>>

NextDisk == FaultyAdd \/ FaultyUpdate \/ FaultyDelete \/ Unlink \/ Tick \/ Reopen

SpecDisk == Init /\ [][NextDisk]_vars

(***************************************************************************)
(* Queries: search_students applied to a collection that add_student has   *)
(* filled, on day 0, with students of several names, majors, ages and      *)
(* gpas, one of them under an id that from_dict refuses.                   *)
(***************************************************************************)
IdS03 == <<"s", "0", "3">>
IdS04 == <<"s", "0", "4">>
IdS05 == <<"s", "0", "5">>
MajorBio == <<"b", "i", "o">>

\* the student's id, first name, major, date of birth and gpa; on day 0 the
\* dates of birth make the ages 19 (a day before the birthday), 22, 27, 35,
\* 14 and 22
QueryArgs ==
    { Args(IdS01, NameAlice, EmailAlice, PhoneGood, <<2004, 6, 2>>, MajorCs, Frac(38, 1)),
      Args(IdS02, NameBob, EmailAlice, PhoneGood, <<2002, 3, 15>>, <<>>, Frac(36, 1)),
      Args(IdS03, NameAlice, EmailAlice, PhoneGood, <<1997, 3, 15>>, MajorBio, Frac(39, 1)),
      Args(IdS04, NameBob, EmailAlice, PhoneGood, <<1989, 3, 15>>, MajorCs, Frac(0, 1)),
      Args(IdS05, NameAlice, EmailAlice, PhoneGood, <<2010, 3, 15>>, <<>>, Frac(38, 1)),
      Args(IdPadded, NameBob, EmailAlice, PhoneGood, <<2002, 3, 15>>, MajorCs, Frac(38, 1)) }

QueryObjects == {Student(a, 0).val : a \in QueryArgs}

Item(key, value) == <<key, value>>

SearchInputs ==
    { <<>>,
      << Item("name", PyStr(<<"e", " ", "l">>)), Item("major", PyStr(<<"C">>)) >>,
      << Item("email", PyStr(<<"U", ".", "i">>)) >>,
      << Item("gpa_min", PyFloat(Frac(37, 1))) >>,
      << Item("gpa_min", PyFloat(Frac(38, 1))) >>,
      << Item("gpa_max", PyFloat(Frac(38, 1))) >>,
      << Item("gpa_min", PyFloat(Frac(36, 1))), Item("gpa_max", PyStr(<<" ", "3", ".", "8">>)) >>,
      << Item("age_min", PyInt(22)), Item("name", PyStr(<<"b", "o">>)) >>,
      << Item("age_max", PyInt(19)), Item("first_name", PyStr(<<"L", "I", "C">>)) >>,
      << Item("nickname", PyStr(<<"x">>)), Item("major", PyStr(<<"b", "i">>)) >>,
      << Item("get_age", PyInt(19)) >>,
      << Item("name", PyInt(5)) >>,
      << Item("major", PyStr(<<"x", "x">>)), Item("gpa_min", PyStr(<<"a", "b", "c">>)) >> }

\* the collections: up to MaxRecords of the students, each once, in any order
QueryRecords == {to_dict(s) : s \in QueryObjects}
QueryFiles ==
    {f \in UNION {[1..n -> QueryRecords] : n \in 0..MaxRecords} :
        \A i, j \in DOMAIN f : i # j => f[i].student_id # f[j].student_id}

\* the last add_student backed up the collection without its last record
InitQuery ==
    /\ file \in QueryFiles
    /\ shape = "list"
    /\ backups = IF file = <<>> THEN <<>>
                 ELSE SetKey(<<>>, Stamp(0),
                             [shape |-> "list", records |-> SubSeq(file, 1, Len(file) - 1)])
    /\ today = 0
    /\ student = NoStudent
    /\ writer = Idle
    /\ last = [op |-> "none"]

QuerySearch ==
    /\ last.op = "none"
    /\ \E criteria \in SearchInputs :
        LET r == db_search_students(Disk, criteria, today)
        IN  /\ last' = [op |-> "search", criteria |-> criteria, raised |-> ~r.ok,
                        val |-> IF r.ok THEN r.val ELSE <<>>]
            /\ UNCHANGED <<file, shape, backups, today, student, writer>>

\* get_statistics(); up is how the float decides a tie of round()
QueryStatistics ==
    /\ last.op = "none"
    /\ \E up \in BOOLEAN :
        LET r == db_get_statistics(Disk, today, up)
        IN  /\ last' = [op |-> "statistics", raised |-> ~r.ok,
                        val |-> IF r.ok THEN r.val ELSE <<>>]
            /\ UNCHANGED <<file, shape, backups, today, student, writer>>

\* get_top_students(limit)
TopLimits == -1..MaxRecords

QueryTop ==
    /\ last.op = "none"
    /\ \E limit \in TopLimits :
        LET r == mgr_get_top_students(Disk, limit, today)
        IN  /\ last' = [op |-> "top", limit |-> limit, raised |-> ~r.ok,
                        val |-> IF r.ok THEN r.val ELSE <<>>]
            /\ UNCHANGED <<file, shape, backups, today, student, writer>>

\* get_all_students()
QueryAll ==
    /\ last.op = "none"
    /\ last' = [op |-> "all", raised |-> ~Iterates(Disk),
                val |-> IF Iterates(Disk) THEN db_get_all_students(Disk, today) ELSE <<>>]
    /\ UNCHANGED <<file, shape, backups, today, student, writer>>

NextQuery == QuerySearch \/ QueryStatistics \/ QueryTop \/ QueryAll

SpecQuery == InitQuery /\ [][NextQuery]_vars

(***************************************************************************)
(* A Student out of the store: get_student or get_all_students hands one   *)
(* to the caller, the caller calls its methods, and update_student writes  *)
(* it back.  `student` is the object in the caller's hands.                *)
(***************************************************************************)
\* the collections the caller finds: the records of up to MaxStudents of the
\* students of SpecDisk, one per student_id, in any order
HeldFiles ==
    {f \in UNION {[1..n -> {to_dict(s) : s \in DiskObjects}] : n \in 1..MaxStudents} :
        \A i, j \in DOMAIN f : i # j => f[i].student_id # f[j].student_id}

HeldCourses == {CourseCs, CourseAi}
HeldGrades == {20, 35}
HeldUpdates == { << <<"first_name", NameBob>> >>, << <<"major", <<>> >> >> }

InitHeld ==
    /\ file \in HeldFiles
    /\ shape = "list"
    /\ backups = <<>>
    /\ today = 0
    /\ student = NoStudent
    /\ writer = Idle
    /\ last = [op |-> "none"]

\* the record of a call: the Student as the store handed it out, and the
\* primary file as it was then
Handed(op, s) == [op |-> op, fetched |-> s, stored |-> file, raised |-> FALSE, ret |-> TRUE]
Held(op, r) == [last EXCEPT !.op = op, !.raised = r.raised, !.ret = r.ret]

HeldGet ==
    /\ last.op = "none"
    /\ \E id \in DiskIds :
        LET r == db_get_student(Disk, id, today)
        IN  /\ r.ok /\ r.val # NoStudent
            /\ student' = r.val
            /\ last' = Handed("get_student", r.val)
    /\ UNCHANGED <<file, shape, backups, today, writer>>

HeldGetAll ==
    /\ last.op = "none"
    /\ \E i \in DOMAIN db_get_all_students(Disk, today) :
        /\ student' = db_get_all_students(Disk, today)[i]
        /\ last' = Handed("get_all_students", db_get_all_students(Disk, today)[i])
    /\ UNCHANGED <<file, shape, backups, today, writer>>

HeldAddCourse ==
    /\ student # NoStudent /\ last.op # "update_student"
    /\ \E c \in HeldCourses :
        LET r == add_course(student, c)
        IN  /\ student' = r.self
            /\ last' = Held("add_course", r)
    /\ UNCHANGED <<file, shape, backups, today, writer>>

HeldRemoveCourse ==
    /\ student # NoStudent /\ last.op # "update_student"
    /\ \E c \in HeldCourses :
        LET r == remove_course(student, c)
        IN  /\ student' = r.self
            /\ last' = Held("remove_course", r)
    /\ UNCHANGED <<file, shape, backups, today, writer>>

\* add_grade of a Student that saves itself
HeldAddGradeSaves ==
    /\ student # NoStudent /\ last.op # "update_student"
    /\ \E c \in HeldCourses, g \in HeldGrades :
        LET r == add_grade(student, c, g)
            w == db_update_student(Disk, r.self, today)
        IN  /\ student' = r.self
            /\ last' = Held("add_grade", r)
            /\ file' = w.disk.file
            /\ shape' = w.disk.shape
            /\ backups' = w.disk.backups
    /\ UNCHANGED <<today, writer>>

HeldAddGrade ==
    /\ student # NoStudent /\ last.op # "update_student"
    /\ \E c \in HeldCourses, g \in HeldGrades :
        LET r == add_grade(student, c, g)
        IN  /\ student' = r.self
            /\ last' = Held("add_grade", r)
    /\ UNCHANGED <<file, shape, backups, today, writer>>

HeldUpdateInfo ==
    /\ student # NoStudent /\ last.op # "update_student"
    /\ \E data \in HeldUpdates :
        LET r == update_info(student, data)
        IN  /\ student' = r.self
            /\ last' = Held("update_info", r)
    /\ UNCHANGED <<file, shape, backups, today, writer>>

\* update_student(student); the caller is done after it
HeldUpdate ==
    /\ student # NoStudent /\ last.op # "update_student"
    /\ LET r == db_update_student(Disk, student, today)
       IN  /\ file' = r.disk.file
           /\ shape' = r.disk.shape
           /\ backups' = r.disk.backups
           /\ last' = Held("update_student", r)
    /\ UNCHANGED <<today, student, writer>>

NextHeld ==
    \/ HeldGet \/ HeldGetAll
    \/ HeldAddCourse \/ HeldRemoveCourse \/ HeldAddGrade \/ HeldUpdateInfo
    \/ HeldUpdate

SpecHeld == InitHeld /\ [][NextHeld]_vars

(***************************************************************************)
(* The use-cases of StudentManager, each on every primary file it can      *)
(* find: a list of records, one of which may not load, a JSON number, torn *)
(* text, or no file.                                                       *)
(***************************************************************************)
FacadeRecords == {to_dict(Object(kind, 0)) : kind \in {k \in ObjectKinds : k[1].student_id # IdShort}}
FacadeFiles ==
    {f \in UNION {[1..n -> FacadeRecords] : n \in 0..MaxStudents} :
        \A i, j \in DOMAIN f : i # j => f[i].student_id # f[j].student_id}
FacadeShapes == {"list", "number", "torn", "missing"}

\* student_data with a field that Student refuses, beside those of the store
FacadeArgs ==
    StoreArgs \cup
    { Args(IdS01, NameBlank, EmailAlice, PhoneGood, BirthGood, MajorCs, Frac(0, 1)),
      Args(IdS01, NameAlice, EmailBad, PhoneGood, BirthGood, MajorCs, Frac(0, 1)),
      Args(IdS01, NameAlice, EmailAlice, PhoneBad, BirthGood, MajorCs, Frac(0, 1)),
      Args(IdS01, NameAlice, EmailAlice, PhoneGood, BirthBad, MajorCs, Frac(0, 1)),
      Args(IdS01, NameAlice, EmailAlice, PhoneGood, BirthGood, MajorCs, Frac(45, 1)) }
FacadeIds == {IdLowerS01, IdLowerS02, IdLowerA}

\* update_data, also with a key that names no updatable field
FacadeUpdates ==
    UpdateInputs \cup { << <<"student_id", IdS02>>, <<"first_name", NameBob>> >>,
                        << <<"last_name", NameBlank>>, <<"major", MajorBio>> >> }

InitFacade ==
    /\ shape \in FacadeShapes
    /\ file \in IF shape = "list" THEN FacadeFiles ELSE {<<>>}
    /\ backups = <<>>
    /\ today = 0
    /\ student = NoStudent
    /\ writer = Idle
    /\ last = [op |-> "none"]

\* what a use-case that writes leaves behind: its arguments, the first of its
\* pair, whether it called _save_data and the primary file as it found it
Written(op, args, r) ==
    /\ file' = r.disk.file
    /\ shape' = r.disk.shape
    /\ backups' = r.disk.backups
    /\ last' = [op |-> op, args |-> args, raised |-> r.raised, val |-> r.ret,
                saved |-> r.saved, before |-> Contents(Disk)]
    /\ UNCHANGED <<today, student, writer>>

\* what a use-case that reads leaves behind
Answered(op, args, r) ==
    /\ last' = [op |-> op, args |-> args, raised |-> r.raised, val |-> r.val,
                saved |-> FALSE, before |-> Contents(Disk)]
    /\ UNCHANGED <<file, shape, backups, today, student, writer>>

FacadeAdd ==
    /\ last.op = "none"
    /\ \E a \in FacadeArgs : Written("add_student", <<a>>, mgr_add_student(Disk, a, today))

FacadeGet ==
    /\ last.op = "none"
    /\ \E id \in FacadeIds : Answered("get_student", <<id>>, mgr_get_student(Disk, id, today))

FacadeUpdate ==
    /\ last.op = "none"
    /\ \E id \in FacadeIds, data \in FacadeUpdates :
        Written("update_student", <<id, data>>, mgr_update_student(Disk, id, data, today))

FacadeDelete ==
    /\ last.op = "none"
    /\ \E id \in FacadeIds : Written("delete_student", <<id>>, mgr_delete_student(Disk, id, today))

FacadeAddCourse ==
    /\ last.op = "none"
    /\ \E id \in FacadeIds, c \in CourseInputs :
        Written("add_course_to_student", <<id, c>>, mgr_add_course(Disk, id, c, today))

FacadeRemoveCourse ==
    /\ last.op = "none"
    /\ \E id \in FacadeIds, c \in CourseInputs :
        Written("remove_course_from_student", <<id, c>>, mgr_remove_course(Disk, id, c, today))

FacadeAddGrade ==
    /\ last.op = "none"
    /\ \E id \in FacadeIds, c \in CourseInputs, g \in GradeInputs :
        Written("add_grade_to_student", <<id, c, g>>, mgr_add_grade(Disk, id, c, g, today))

FacadeSearch ==
    /\ last.op = "none"
    /\ \E criteria \in SearchInputs :
        Answered("search_students", <<criteria>>, mgr_search_students(Disk, criteria, today))

FacadeStatistics ==
    /\ last.op = "none"
    /\ \E up \in BOOLEAN : Answered("get_statistics", <<>>, mgr_get_statistics(Disk, today, up))

FacadeTranscript ==
    /\ last.op = "none"
    /\ \E id \in FacadeIds :
        Answered("get_student_transcript", <<id>>, mgr_get_student_transcript(Disk, id, today))

NextFacade ==
    \/ FacadeAdd \/ FacadeGet \/ FacadeUpdate \/ FacadeDelete
    \/ FacadeAddCourse \/ FacadeRemoveCourse \/ FacadeAddGrade
    \/ FacadeSearch \/ FacadeStatistics \/ FacadeTranscript

SpecFacade == InitFacade /\ [][NextFacade]_vars

(***************************************************************************)
(* Reads of a primary file that holds no records: an empty list, a JSON    *)
(* number, torn text, or no file; then add_student.                        *)
(***************************************************************************)
InitLoad ==
    /\ shape \in FacadeShapes
    /\ file = <<>>
    /\ backups = <<>>
    /\ today = 0
    /\ student = NoStudent
    /\ writer = Idle
    /\ last = [op |-> "none"]

LoadGet ==
    /\ last.op = "none"
    /\ \E id \in DiskIds :
        LET r == db_get_student(Disk, id, today)
        IN  /\ last' = [op |-> "get", id |-> id, raised |-> ~r.ok,
                        val |-> IF r.ok THEN r.val ELSE NoStudent]
            /\ UNCHANGED <<file, shape, backups, today, student, writer>>

\* add_student, first or after a read; `after` is the read it follows
LoadAdd ==
    /\ last.op # "add"
    /\ \E s \in DiskObjects :
        LET r == db_add_student(Disk, s, today)
        IN  /\ file' = r.disk.file
            /\ shape' = r.disk.shape
            /\ backups' = r.disk.backups
            /\ last' = [op |-> "add", obj |-> s, raised |-> r.raised, ret |-> r.ret,
                        after |-> last, before |-> Contents(Disk)]
            /\ UNCHANGED <<today, student, writer>>

NextLoad == LoadGet \/ QueryAll \/ QuerySearch \/ QueryStatistics \/ LoadAdd

SpecLoad == InitLoad /\ [][NextLoad]_vars

(***************************************************************************)
(* Two writers on one path.  A call of add_student, update_student or      *)
(* delete_student is two steps: it loads the file and changes the list in  *)
(* memory, then _save_data backs the file up and rewrites it, each step    *)
(* atomic; StudentManager.add_student looks the id up with get_student     *)
(* first.  The steps of the two writers interleave in any order.           *)
(***************************************************************************)
\* what a call does between _load_data and _save_data: whether it goes on to
\* _save_data (it returns False otherwise), and the list it hands to it
Plan(call, data) ==
    IF call.op \in {"add", "mgr_add"}
    THEN IF Matches(data, call.obj.student_id) # {} THEN [write |-> FALSE, data |-> data]
         ELSE [write |-> TRUE, data |-> Append(data, to_dict(call.obj))]
    ELSE LET hit == Matches(data, upper(call.id))
         IN  IF hit = {} THEN [write |-> FALSE, data |-> data]
             ELSE IF call.op = "update"
             THEN [write |-> TRUE, data |-> [data EXCEPT ![First(hit)] = to_dict(call.obj)]]
             ELSE [write |-> TRUE,
                   data |-> SubSeq(data, 1, First(hit) - 1)
                            \o SubSeq(data, First(hit) + 1, Len(data))]

\* the calls of the writers: on a Student of SpecDisk, or on a student_id
DbCalls ==
    {[op |-> op, obj |-> s, id |-> s.student_id] : op \in {"add", "update"}, s \in DiskObjects}
    \cup {[op |-> "delete", obj |-> NoStudent, id |-> id] : id \in DiskIds}
MgrCalls ==
    {[op |-> "mgr_add", obj |-> s, id |-> s.student_id] :
        s \in {Object(kind, 0) : kind \in {k \in DiskKinds : ~k[2]}}}

InitWriters ==
    /\ file \in HeldFiles \cup {<<>>}
    /\ shape = "list"
    /\ backups = <<>>
    /\ today = 0
    /\ student = NoStudent
    /\ writer = Idle
    /\ last = [op |-> "none"]

\* where a writer stands after a step
At(w, pc, call, loaded, new, ret) ==
    /\ writer' = [writer EXCEPT ![w] = [pc |-> pc, call |-> call, loaded |-> loaded,
                                        new |-> new, ret |-> ret]]
    /\ UNCHANGED <<today, student>>

\* StudentManager.add_student up to its check of get_student
WriterCheck(w) ==
    /\ writer[w].pc = "idle"
    /\ \E call \in MgrCalls :
        LET existing == db_get_student(Disk, call.id, today)
        IN  IF existing.ok /\ existing.val = NoStudent
            THEN At(w, "checked", call, <<>>, <<>>, FALSE)
            ELSE At(w, "done", call, <<>>, <<>>, FALSE)
    /\ last' = [op |-> "check", writer |-> w]
    /\ UNCHANGED <<file, shape, backups>>

\* a call up to _save_data: _load_data and the loop over what it returned
WriterLoad(w) ==
    /\ writer[w].pc \in {"idle", "checked"}
    /\ \E call \in IF writer[w].pc = "idle" THEN DbCalls ELSE {writer[w].call} :
        LET data == load_data(Disk)
        IN  IF Plan(call, data).write
            THEN At(w, "loaded", call, data, Plan(call, data).data, FALSE)
            ELSE At(w, "done", call, data, data, FALSE)
    /\ last' = [op |-> "load", writer |-> w]
    /\ UNCHANGED <<file, shape, backups>>

\* a writer that holds a lock from its load to its save: its save writes the
\* change to the file as it is now
WriterSaveLocked(w) ==
    /\ writer[w].pc = "loaded"
    /\ LET plan == Plan(writer[w].call, load_data(Disk))
           r == save_data(Disk, plan.data, today)
       IN  /\ file' = r.disk.file
           /\ shape' = r.disk.shape
           /\ backups' = r.disk.backups
           /\ At(w, "done", writer[w].call, writer[w].loaded, writer[w].new, plan.write)
    /\ last' = [op |-> "save", writer |-> w]

\* a writer that opens the file for appending: its save puts the new record
\* behind what the file holds now
WriterSaveAppends(w) ==
    /\ writer[w].pc = "loaded"
    /\ LET data == IF writer[w].call.op \in {"add", "mgr_add"}
                   THEN Append(load_data(Disk), to_dict(writer[w].call.obj))
                   ELSE writer[w].new
           r == save_data(Disk, data, today)
       IN  /\ file' = r.disk.file
           /\ shape' = r.disk.shape
           /\ backups' = r.disk.backups
           /\ At(w, "done", writer[w].call, writer[w].loaded, writer[w].new, r.ret)
    /\ last' = [op |-> "save", writer |-> w]

\* _save_data(data) of the list the writer changed in memory
WriterSave(w) ==
    /\ writer[w].pc = "loaded"
    /\ LET r == save_data(Disk, writer[w].new, today)
       IN  /\ file' = r.disk.file
           /\ shape' = r.disk.shape
           /\ backups' = r.disk.backups
           /\ At(w, "done", writer[w].call, writer[w].loaded, writer[w].new, r.ret)
    /\ last' = [op |-> "save", writer |-> w]

NextWriters == \E w \in Writers : WriterCheck(w) \/ WriterLoad(w) \/ WriterSave(w)

SpecWriters == InitWriters /\ [][NextWriters]_vars

(***************************************************************************)
(* Properties of the store (stated for Spec).                              *)
(***************************************************************************)
UpdateOps == {"mgr_update", "db_update"}

\* the student_id the last call names is not stored in data
NotStored(data) == Matches(data, upper(last.id)) = {}

\* C1: no two records of the stored collection have the same student_id.
C1_UniqueIds ==
    \A i, j \in DOMAIN file : i # j => file[i].student_id # file[j].student_id

\* C1 happens: a Manager update has just rewritten a collection of two records.
C1_TwoStoredAfterUpdate ==
    /\ Len(file) >= 2
    /\ last.op = "mgr_update"
    /\ last.ret

\* C2: an add whose student_id is already stored returns false and leaves the
\* stored collection as it was, without a rewrite.
C2_DuplicateAddFails ==
    (/\ last.op \in AddOps
     /\ last.obj # NoStudent
     /\ Matches(last.before.file, last.obj.student_id) # {}) =>
        /\ ~last.ret
        /\ ~last.saved
        /\ file = last.before.file

\* C2 happens: add_student is refused for a student_id stored, among two
\* records, with other contents than the object's.
C2_DuplicateAddRefused ==
    /\ last.op = "db_add"
    /\ Len(last.before.file) = 2
    /\ \E i \in DOMAIN last.before.file :
        /\ last.before.file[i].student_id = last.obj.student_id
        /\ last.before.file[i] # to_dict(last.obj)

\* C3: a get_student that follows a successful add, with the added student_id
\* in any letter case, returns a Student equal to the added one in every attribute.
C3_GetReturnsAdded ==
    (/\ last.op = "db_get"
     /\ last.after.op \in AddOps
     /\ upper(last.id) = last.after.obj.student_id) =>
        /\ ~last.raised
        /\ last.val = last.after.obj

\* get_student(id) returns None on disk d
GetsAbsent(d, id) ==
    LET r == db_get_student(d, id, today)
    IN  r.ok /\ r.val = NoStudent

\* C4: after a successful delete of id, get_student(id) returns None, and
\* from returning None it changes only by a successful add of that id.
C4_DeletedStaysAbsent ==
    last.op # "none" =>
        /\ (last.op \in DeleteOps /\ last.ret) => GetsAbsent(Disk, last.id)
        /\ \A id \in LookupIds :
            (GetsAbsent(last.before, id) /\ ~GetsAbsent(Disk, id)) =>
                /\ last.op \in AddOps
                /\ last.ret
                /\ last.obj.student_id = upper(id)
        /\ (/\ last.op = "db_get"
            /\ last.after.op \in DeleteOps
            /\ upper(last.after.id) = upper(last.id)) =>
                /\ ~last.raised
                /\ last.val = NoStudent

\* C4 happens: get_student returns None for the id just deleted from a
\* collection that still holds another record.
C4_GetAfterDelete ==
    /\ last.op = "db_get"
    /\ last.after.op \in DeleteOps
    /\ upper(last.after.id) = upper(last.id)
    /\ last.val = NoStudent
    /\ file # <<>>

\* C5: an update or a delete for a student_id that is not stored returns
\* false, leaves the stored collection as it was and rewrites nothing.
C5_AbsentUpdateDeleteFail ==
    (/\ last.op \in UpdateOps \cup DeleteOps
     /\ NotStored(last.before.file)) =>
        /\ ~last.ret
        /\ ~last.saved
        /\ file = last.before.file
        /\ backups = last.before.backups

\* C5 happens: update_student is refused for a student_id that a non-empty
\* collection does not hold.
C5_AbsentUpdateRefused ==
    /\ last.op = "db_update"
    /\ NotStored(last.before.file)
    /\ last.before.file # <<>>
    /\ ~last.ret

\* the sequence s without its element i
Without(s, i) == SubSeq(s, 1, i - 1) \o SubSeq(s, i + 1, Len(s))

\* C27: an add that succeeded left the stored records as they were and the
\* new record behind them; an update that succeeded left as many records,
\* each but the one of its student_id as it was and where it was; a delete
\* that succeeded removed the record of its student_id and left the others
\* as they were, in their order.  This holds for records that from_dict
\* refuses as for the others.
C27_OnlyTargetTouched ==
    (last.op \in AddOps \cup UpdateOps \cup DeleteOps /\ last.ret) =>
        LET old == last.before.file
            id == IF last.obj # NoStudent THEN last.obj.student_id ELSE upper(last.id)
        IN  IF last.op \in AddOps THEN file = Append(old, to_dict(last.obj))
            ELSE \E i \in DOMAIN old :
                    /\ old[i].student_id = id
                    /\ IF last.op \in DeleteOps THEN file = Without(old, i)
                       ELSE /\ Len(file) = Len(old)
                            /\ file[i].student_id = id
                            /\ last.op = "db_update" => file[i] = to_dict(last.obj)
                            /\ \A j \in DOMAIN old \ {i} : file[j] = old[j]

\* C27 happens: an update has changed the first of two records, and the
\* second, which from_dict refuses, is as it was.
C27_UnloadableNeighbourKept ==
    /\ last.op \in UpdateOps
    /\ last.ret
    /\ Len(file) = 2
    /\ file[1] # last.before.file[1]
    /\ file[2] = last.before.file[2]
    /\ ~from_dict(file[2], today).ok

(***************************************************************************)
(* Properties of the Student object (stated for SpecEntity).               *)
(***************************************************************************)
HasStudent == student # NoStudent

\* gpa is the exact mean of the values of grades
IsMeanOf(gpa, grades) ==
    gpa[1] * Cardinality(DOMAIN grades) = gpa[2] * SumValues(grades)

\* C6: in every state of a Student object, gpa is the mean of the values of
\* grades when grades is non-empty and 0.0 when grades is empty.
C6_GpaIsMeanOfGrades ==
    HasStudent =>
        IF DOMAIN student.grades # {}
        THEN IsMeanOf(student.gpa, student.grades)
        ELSE student.gpa = Zero

\* C7: right after a successful add_grade(course, value), gpa is the mean of
\* the current values of grades and grades[course] is value.
C7_AddGradeSetsMean ==
    (last.op = "add_grade" /\ ~last.raised) =>
        /\ last.ret = TRUE
        /\ last.course \in DOMAIN student.grades
        /\ student.grades[last.course] = last.grade
        /\ IsMeanOf(student.gpa, student.grades)

\* C7 happens: a course is re-graded with another value on an object built
\* with a non-zero gpa argument, while a second course holds a grade.
C7_Regraded ==
    /\ last.op = "add_grade" /\ ~last.raised
    /\ last.course \in DOMAIN last.before.grades
    /\ last.before.grades[last.course] # last.grade
    /\ Cardinality(DOMAIN student.grades) = 2
    /\ Len(student.courses) = 2
    /\ student.gpa # Zero

\* C8: every key of grades is an element of courses, and remove_course of a
\* graded course removes its entry of grades too.
C8_GradesWithinCourses ==
    HasStudent =>
        /\ DOMAIN student.grades \subseteq Range(student.courses)
        /\ (last.op = "remove_course" /\ last.course \in DOMAIN last.before.grades) =>
              /\ last.ret = TRUE
              /\ last.course \notin DOMAIN student.grades
              /\ last.course \notin Range(student.courses)

\* C8 happens: a graded course is removed while another graded course stays.
C8_GradedCourseRemoved ==
    /\ last.op = "remove_course"
    /\ last.course \in DOMAIN last.before.grades
    /\ DOMAIN student.grades # {}

\* C9: remove_course leaves gpa as it was; removing the only course, graded
\* v > 0, returns true and leaves grades empty and gpa still v.
C9_RemoveKeepsGpa ==
    last.op = "remove_course" =>
        /\ student.gpa = last.before.gpa
        /\ \A v \in GradeInputs :
              (/\ v > 0
               /\ last.before.courses = <<last.course>>
               /\ DOMAIN last.before.grades = {last.course}
               /\ last.before.grades[last.course] = v
               /\ last.before.gpa = Frac(v, 1)) =>
                  /\ last.ret = TRUE
                  /\ DOMAIN student.grades = {}
                  /\ student.courses = <<>>
                  /\ student.gpa = Frac(v, 1)

\* C9 happens: the only course, graded 3.5, has just been removed.
C9_OnlyGradedCourseRemoved ==
    /\ last.op = "remove_course"
    /\ last.ret = TRUE
    /\ last.before.courses = <<last.course>>
    /\ DOMAIN last.before.grades = {last.course}
    /\ last.before.grades[last.course] = 35
    /\ DOMAIN student.grades = {}

InGpaRange(q) == q[2] > 0 /\ q[1] >= 0 /\ q[1] <= MaxGpa * q[2]

\* C30: in every state of a Student built by the constructor and changed by
\* add_course, remove_course and add_grade, gpa lies in [0.0, 4.0] and every
\* value of grades lies in [0.0, 4.0].
C30_GpaAndGradesInRange ==
    HasStudent =>
        /\ InGpaRange(student.gpa)
        /\ \A c \in DOMAIN student.grades :
               student.grades[c] >= 0 /\ student.grades[c] <= MaxGrade

\* no element of the sequence s occurs twice
NoDuplicates(s) == \A i, j \in DOMAIN s : i # j => s[i] # s[j]

\* C11 as stated: courses holds no name twice; add_course(name) with name in
\* courses returns False and changes nothing, otherwise it appends name at the
\* end of courses and changes nothing else.
C11_AddCourseAppendsName ==
    HasStudent =>
        /\ NoDuplicates(student.courses)
        /\ (last.op = "add_course" /\ ~last.raised) =>
              IF last.course \in Range(last.before.courses)
              THEN last.ret = FALSE /\ student = last.before
              ELSE /\ last.ret = TRUE
                   /\ student = [last.before EXCEPT !.courses = Append(@, last.course)]

\* C11: courses holds no name twice; add_course(name) of a non-empty name
\* works on the name stripped of surrounding whitespace: with the stripped
\* name in courses it returns False and changes nothing, otherwise it appends
\* the stripped name at the end of courses and changes nothing else.
C11_AddCourseAppendsStripped ==
    HasStudent =>
        /\ NoDuplicates(student.courses)
        /\ (last.op = "add_course" /\ last.course # <<>>) =>
              /\ ~last.raised
              /\ IF strip(last.course) \in Range(last.before.courses)
                 THEN last.ret = FALSE /\ student = last.before
                 ELSE /\ last.ret = TRUE
                      /\ student = [last.before EXCEPT
                                       !.courses = Append(@, strip(last.course))]

\* C11 happens: a name with trailing whitespace is refused as already present
\* by an object that lists its stripped form after another course.
C11_PaddedNameAlreadyPresent ==
    /\ last.op = "add_course"
    /\ last.course # strip(last.course)
    /\ Len(last.before.courses) = 2
    /\ last.before.courses[2] = strip(last.course)
    /\ last.ret = FALSE

(***************************************************************************)
(* Properties of a Student whose fields are updated (stated for SpecInfo). *)
(***************************************************************************)
\* C22: for every Student built by the constructor and changed by add_course,
\* remove_course, add_grade and update_info, from_dict(to_dict(student))
\* returns a Student equal to it in all twelve attributes.
C22_RoundTrip ==
    HasStudent => from_dict(to_dict(student), today) = Return(student)

(***************************************************************************)
(* Properties of the store on a disk that fails (stated for SpecDisk).     *)
(***************************************************************************)
WriteOps == {"db_add", "db_update", "db_delete"}

\* the last call was an add, update or delete that reached _save_data
Wrote == last.op \in WriteOps /\ last.saved

\* the backup file named by the current second holds the primary file as the
\* last call found it
BackupHoldsBefore ==
    /\ Stamp(today) \in DOMAIN backups
    /\ backups[Stamp(today)] = last.before

\* C12 as stated: right after every add, update or delete that wrote, the
\* backup file named by the current second holds the contents the primary
\* file had before the write.
C12_BackupBeforeWrite == Wrote => BackupHoldsBefore

\* C12: right after an add, update or delete that wrote a primary file that
\* existed, and whose backup step met no I/O error, the backup file named by
\* the current second holds the contents the primary file had before the write.
C12_BackupBeforeWriteUnlessFailed ==
    (/\ Wrote
     /\ last.before.shape # "missing"
     /\ last.fault # "backup") => BackupHoldsBefore

\* C12 happens: an update rewrote a record of a two-record collection on a
\* later day than the previous backup, and the backup differs from the new file.
C12_UpdateBackedUp ==
    /\ last.op = "db_update"
    /\ last.ret
    /\ Len(last.before.records) = 2
    /\ file # last.before.records
    /\ Cardinality(DOMAIN backups) = 2
    /\ BackupHoldsBefore

\* C13: after an add, update or delete that reached the rewrite, the primary
\* file holds the complete new collection when the call returned True and is
\* as the call found it otherwise, and a write that met an I/O error returned
\* False.
C13_WriteAllOrNothing ==
    Wrote =>
        /\ last.fault \in {"open", "dump"} => ~last.ret
        /\ IF last.ret THEN shape = "list" ELSE Contents(Disk) = last.before

\* C25: constructing another StudentDatabase on the same path writes an empty
\* list when the primary file is missing and otherwise leaves the primary
\* file as it was, whatever adds, updates and deletes came before; it leaves
\* the backups as they were, and constructing one more changes nothing.
C25_InitIdempotent ==
    last.op = "init" =>
        /\ IF last.before.shape = "missing"
           THEN Contents(Disk) = [shape |-> "list", records |-> <<>>]
           ELSE Contents(Disk) = last.before
        /\ backups = last.backed
        /\ db_init(Disk) = Disk

\* C25 happens: a StudentDatabase is constructed on a file of two records
\* that writes on two days have backed up twice.
C25_ReopenedWithRecords ==
    /\ last.op = "init"
    /\ Len(file) = 2
    /\ file = last.before.records
    /\ Cardinality(DOMAIN backups) = 2

(***************************************************************************)
(* Properties of the queries (stated for SpecQuery).                       *)
(***************************************************************************)
\* the stored records that from_dict accepts, as Students, in file order
Loadable ==
    LET Loads(rec) == from_dict(rec, today).ok
        kept == SelectSeq(file, Loads)
    IN  [i \in DOMAIN kept |-> from_dict(kept[i], today).val]

\* the keys that name a predicate of search, and the values of their types
TextKeys == {"name", "major", "email"}
NumberKeys == {"gpa_min", "gpa_max", "age_min", "age_max"}
WellTyped(item) ==
    /\ item[1] \in TextKeys => item[2].type = "str"
    /\ item[1] \in NumberKeys =>
          \/ item[2].type \in {"float", "int"}
          \/ item[2].type = "str" /\ FloatOf(item[2]).ok

\* the student satisfies the predicate that the item names
Holds(s, item) ==
    LET key == item[1]
        value == item[2]
    IN  CASE key = "name" ->
                 Contains(lower(value.text), lower(s.first_name \o <<" ">> \o s.last_name))
          [] key \in {"major", "email"} \cup StrAttributes ->
                 value.type = "str" /\ Contains(lower(value.text), lower(s[key]))
          [] key = "gpa_min" -> ~Less(s.gpa, FloatOf(value).val)
          [] key = "gpa_max" -> ~Less(FloatOf(value).val, s.gpa)
          [] key = "age_min" -> get_age(s, today) >= IntOf(value).val
          [] key = "age_max" -> get_age(s, today) <= IntOf(value).val
          [] key \in MethodAttributes -> FALSE
          [] OTHER -> TRUE

\* C18: search with well-typed criteria returns, in file order, exactly the
\* loadable records that satisfy every item that names a predicate or an
\* attribute; an item that names neither excludes nothing, and with no items
\* every loadable record is returned.
C18_SearchIsConjunction ==
    (/\ last.op = "search"
     /\ \A i \in DOMAIN last.criteria : WellTyped(last.criteria[i])) =>
        LET Satisfies(s) == \A i \in DOMAIN last.criteria : Holds(s, last.criteria[i])
        IN  /\ ~last.raised
            /\ last.val = SelectSeq(Loadable, Satisfies)

\* C18 happens: a search by two bounds returns two of three loadable
\* records, in file order and not in student_id order, from a collection with
\* a record that does not load.
C18_TwoOfThreeInFileOrder ==
    /\ last.op = "search"
    /\ Len(last.criteria) = 2
    /\ Len(file) = 4
    /\ Len(Loadable) = 3
    /\ Len(last.val) = 2
    /\ last.val[1].student_id = upper(IdS05)
    /\ last.val[2].student_id = upper(IdS01)

\* the gpa of each student of a sequence
Gpas(students) == [i \in DOMAIN students |-> students[i].gpa]

\* C19: search by gpa_min = m alone returns the loadable records with
\* gpa >= m, by gpa_max = m alone those with gpa <= m; gpa_min = 3.7 over the
\* gpas 3.8, 3.6, 3.9 returns the records of 3.8 and 3.9.
C19_GpaBoundsInclusive ==
    (/\ last.op = "search"
     /\ Len(last.criteria) = 1
     /\ last.criteria[1][1] \in {"gpa_min", "gpa_max"}
     /\ last.criteria[1][2].type = "float") =>
        LET m == last.criteria[1][2].num
            Within(gpa) == IF last.criteria[1][1] = "gpa_min"
                           THEN gpa[1] * m[2] >= m[1] * gpa[2]
                           ELSE gpa[1] * m[2] <= m[1] * gpa[2]
        IN  /\ ~last.raised
            /\ \A i \in DOMAIN Loadable :
                  Within(Loadable[i].gpa) <=> Loadable[i] \in Range(last.val)
            /\ Range(last.val) \subseteq Range(Loadable)
            /\ (/\ last.criteria[1] = Item("gpa_min", PyFloat(Frac(37, 1)))
                /\ Gpas(Loadable) = <<Frac(38, 1), Frac(36, 1), Frac(39, 1)>>) =>
                    Gpas(last.val) = <<Frac(38, 1), Frac(39, 1)>>

\* C19 happens: over the gpas 3.8, 3.6, 3.9 a search by gpa_min = 3.8 returns
\* the record whose gpa is the bound itself, and the record of 3.9.
C19_BoundItselfReturned ==
    /\ last.op = "search"
    /\ last.criteria = << Item("gpa_min", PyFloat(Frac(38, 1))) >>
    /\ Gpas(Loadable) = <<Frac(38, 1), Frac(36, 1), Frac(39, 1)>>
    /\ Gpas(last.val) = <<Frac(38, 1), Frac(39, 1)>>

\* the ages of the loadable records
Ages == [i \in DOMAIN Loadable |-> get_age(Loadable[i], today)]

\* the ages that belong to an age range
InRange(age, r) ==
    CASE r = "18-20" -> age \in 18..20
      [] r = "21-25" -> age \in 21..25
      [] r = "26-30" -> age \in 26..30
      [] r = "30+" -> age > 30 \/ age < 18

\* C20: when some record loads, get_statistics counts every loadable record
\* in exactly one age range: 18 to 20 in 18-20, 21 to 25 in 21-25, 26 to 30 in
\* 26-30 and every other age, above 30 or below 18, in 30+; the ages 19, 22,
\* 27, 35 give one record per range.
C20_AgeRanges ==
    (last.op = "statistics" /\ Loadable # <<>>) =>
        LET dist == last.val.age_distribution
        IN  /\ DOMAIN dist = AgeRanges
            /\ \A r \in AgeRanges :
                  dist[r] = Cardinality({i \in DOMAIN Ages : InRange(Ages[i], r)})
            /\ \A i \in DOMAIN Ages :
                  Cardinality({r \in AgeRanges : InRange(Ages[i], r)}) = 1
            /\ dist["18-20"] + dist["21-25"] + dist["26-30"] + dist["30+"] = Len(Loadable)
            /\ Ages = <<19, 22, 27, 35>> => \A r \in AgeRanges : dist[r] = 1

\* C20 happens: statistics over the ages 19, 22, 27, 35, the first of them a
\* day before the twentieth birthday.
C20_OnePerRange ==
    /\ last.op = "statistics"
    /\ Ages = <<19, 22, 27, 35>>
    /\ \A r \in AgeRanges : last.val.age_distribution[r] = 1

\* the indexes of the stored records that from_dict accepts
Valid == {i \in DOMAIN file : from_dict(file[i], today).ok}

\* C23: get_all_students returns exactly the stored records that from_dict
\* accepts, each as a Student, in stored order: a record it refuses neither
\* ends the load nor hides the records stored after it.
C23_LoadAllSkipsInvalid ==
    last.op = "all" =>
        /\ Len(last.val) = Cardinality(Valid)
        /\ \A i \in Valid :
              last.val[Cardinality({j \in Valid : j <= i})] = from_dict(file[i], today).val

\* C23 happens: of four stored records the second is refused, and the two
\* stored after it are returned behind the first.
C23_ValidAfterInvalid ==
    /\ last.op = "all"
    /\ Len(file) = 4
    /\ Valid = {1, 3, 4}
    /\ Len(last.val) = 3
    /\ last.val[3].student_id = file[4].student_id

\* the loadable records with gpa > 0, in file order
WithGpa ==
    LET Positive(s) == s.gpa[1] > 0
    IN  SelectSeq(Loadable, Positive)

\* the number of records of the sequence w that come before its record i when
\* the records are put in descending order of gpa, equal gpas in the order of w
Ahead(w, i) ==
    Cardinality({j \in DOMAIN w :
                    \/ w[j].gpa[1] * w[i].gpa[2] > w[i].gpa[1] * w[j].gpa[2]
                    \/ /\ w[j].gpa[1] * w[i].gpa[2] = w[i].gpa[1] * w[j].gpa[2]
                       /\ j < i})

\* val is the sequence w in that order, cut to its first limit records
IsTopOf(val, w, limit) ==
    /\ Len(val) = IF limit < Len(w) THEN limit ELSE Len(w)
    /\ \A i \in DOMAIN w : Ahead(w, i) < limit => val[Ahead(w, i) + 1] = w[i]

\* C21: get_top_students(limit) with limit >= 0 returns the loadable records
\* with gpa > 0 in descending order of gpa, records of equal gpa in file
\* order, cut to the first limit of them.
C21_TopByGpa ==
    (last.op = "top" /\ last.limit >= 0) =>
        /\ ~last.raised
        /\ IsTopOf(last.val, WithGpa, last.limit)

\* C21 happens: of four records with gpa > 0, two of them with the same gpa
\* and stored in the reverse order of their student_id, the top three are
\* returned, the two of the same gpa in file order.
C21_TieInFileOrder ==
    /\ last.op = "top"
    /\ last.limit = 3
    /\ Len(WithGpa) = 4
    /\ Len(last.val) = 3
    /\ last.val[2].student_id = upper(IdS05)
    /\ last.val[3].student_id = upper(IdS01)
    /\ last.val[2].gpa = last.val[3].gpa

(***************************************************************************)
(* Properties of a primary file without records (stated for SpecLoad).     *)
(***************************************************************************)
\* what get_statistics returns for an empty collection
NoStatistics ==
    [total_students |-> 0, average_gpa |-> 0, majors |-> <<>>, age_distribution |-> <<>>]

\* C24: on a primary file that is missing or holds no JSON list, get_student
\* returns None, get_all_students and search_students return [] and
\* get_statistics returns the statistics of no students, none of them
\* raising; an add_student that follows returns True and leaves a list that
\* holds the record of the added Student and nothing else.
C24_MalformedReadsAsEmpty ==
    /\ (last.op \in {"get", "all", "search", "statistics"} /\ shape # "list") =>
          /\ ~last.raised
          /\ last.op = "get" => last.val = NoStudent
          /\ last.op \in {"all", "search"} => last.val = <<>>
          /\ last.op = "statistics" => last.val = NoStatistics
    /\ (last.op = "add" /\ last.before.shape # "list") =>
          /\ ~last.raised
          /\ last.ret
          /\ shape = "list"
          /\ file = <<to_dict(last.obj)>>

(***************************************************************************)
(* Properties of a Student out of the store (stated for SpecHeld).         *)
(***************************************************************************)
HeldMethods == {"add_course", "remove_course", "add_grade", "update_info"}

\* C17: whatever methods the caller runs on a Student that get_student or
\* get_all_students returned, the primary file stays as it was when the
\* Student was handed out and get_student still returns the Student as handed
\* out; an update_student of the Student that returns True stores it.
C17_HeldStudentIsACopy ==
    /\ last.op \in HeldMethods =>
          /\ file = last.stored
          /\ db_get_student(Disk, last.fetched.student_id, today) = Return(last.fetched)
    /\ (last.op = "update_student" /\ last.ret) =>
          db_get_student(Disk, student.student_id, today) = Return(student)

\* C17 happens: add_grade changed the grades and the gpa of a Student out of
\* the store, and the stored record still has the old ones.
C17_GradedCopyNotStored ==
    /\ last.op = "add_grade"
    /\ ~last.raised
    /\ student.grades # last.fetched.grades
    /\ student.gpa # last.fetched.gpa
    /\ \E i \in DOMAIN file :
          /\ file[i].student_id = student.student_id
          /\ file[i].grades = last.fetched.grades

(***************************************************************************)
(* Properties of the use-cases of StudentManager (stated for SpecFacade).  *)
(***************************************************************************)
WritingCases ==
    {"add_student", "update_student", "delete_student", "add_course_to_student",
     "remove_course_from_student", "add_grade_to_student"}
ReadingCases == {"get_student", "search_students", "get_statistics", "get_student_transcript"}

\* C16: every use-case of StudentManager returns its pair, whatever its
\* arguments and whatever the primary file is: nothing it calls raises past
\* it, a use-case that writes returns True or False for success, and one that
\* reads returns None, [] or {} when what it calls raised.
C16_UseCasesReturnPairs ==
    /\ last.op \in WritingCases => ~last.raised /\ last.val \in BOOLEAN
    /\ last.op \in ReadingCases => ~last.raised
    /\ (last.op \in {"get_student", "get_student_transcript"}
          /\ last.before.shape = "number") => last.val = NoStudent
    /\ (last.op \in {"search_students", "get_statistics"}
          /\ last.before.shape = "number") => last.val = <<>>

\* C16 happens: get_student returned (None, message) for the id of a stored
\* record that Student.from_dict refuses.
C16_GetOfUnloadableRecord ==
    /\ last.op = "get_student"
    /\ ~last.raised
    /\ last.val = NoStudent
    /\ last.before.shape = "list"
    /\ \E i \in DOMAIN file :
          /\ file[i].student_id = upper(last.args[1])
          /\ ~from_dict(file[i], today).ok

CourseCases == {"add_course_to_student", "remove_course_from_student"}

\* the Student the last use-case read from the primary file, when it read one
ReadBefore ==
    LET got == db_get_student([file |-> last.before.records, shape |-> last.before.shape],
                              last.args[1], today)
    IN  IF got.ok THEN got.val ELSE NoStudent

\* the last call was a course use-case that found its student and had nothing
\* to change: the course to add is listed, the course to remove is not
CourseNoOp ==
    /\ last.op \in CourseCases
    /\ ReadBefore # NoStudent
    /\ IF last.op = "add_course_to_student"
       THEN strip(last.args[2]) \in Range(ReadBefore.courses)
       ELSE last.args[2] \notin Range(ReadBefore.courses)

\* C14: a Manager add-course of a course the student has, or remove-course of
\* a course the student does not have, returns failure without a call of
\* _save_data: the primary file stays as it was and no backup is written.
C14_NoOpCourseNotPersisted ==
    CourseNoOp =>
        /\ last.val = FALSE
        /\ ~last.raised
        /\ ~last.saved
        /\ Contents(Disk) = last.before
        /\ backups = <<>>

\* C14 happens: add-course of a listed course, named with trailing
\* whitespace, is refused for a student stored with one other record.
C14_ListedCourseNotResaved ==
    /\ CourseNoOp
    /\ last.op = "add_course_to_student"
    /\ last.args[2] # strip(last.args[2])
    /\ Len(file) = 2

MutationCases ==
    {"update_student", "add_course_to_student", "remove_course_from_student",
     "add_grade_to_student"}

\* the student_id of each stored record, in file order
Ids(data) == [i \in DOMAIN data |-> data[i].student_id]

\* C15: a Manager update, add-course, remove-course or add-grade leaves the
\* student_id of every stored record as it was, also when the update data
\* has a student_id key.
C15_IdsKept ==
    last.op \in MutationCases => Ids(file) = Ids(last.before.records)

\* C15 happens: an update whose data names another stored student_id has
\* rewritten the second of two records, changing its first name only.
C15_UpdateWithIdKey ==
    /\ last.op = "update_student"
    /\ last.val = TRUE
    /\ \E i \in DOMAIN last.args[2] :
          /\ last.args[2][i][1] = "student_id"
          /\ upper(last.args[2][i][2]) # upper(last.args[1])
          /\ Matches(file, upper(last.args[2][i][2])) # {}
    /\ Len(file) = 2
    /\ file[1] = last.before.records[1]
    /\ file[2] = [last.before.records[2] EXCEPT !.first_name = title(NameBob)]
    /\ file[2] # last.before.records[2]

\* the validator of update_info refuses the value of the item
Refused(item) ==
    \/ item[1] \in {"first_name", "last_name"} /\ ~validate_name(item[2]).ok
    \/ item[1] = "email" /\ ~validate_email(item[2]).ok
    \/ item[1] = "phone" /\ ~validate_phone(item[2]).ok

\* the last call was an update_student with a value that its validator refuses
RefusedUpdate ==
    /\ last.op = "update_student"
    /\ \E i \in DOMAIN last.args[2] : Refused(last.args[2][i])

\* C29: an update_student of StudentManager whose data holds a value that the
\* validator of its field refuses returns (False, message), calls no
\* _save_data and leaves the primary file and the backups as they were, also
\* when valid fields come before the refused one.
C29_RefusedUpdateStoresNothing ==
    RefusedUpdate =>
        /\ last.val = FALSE
        /\ ~last.raised
        /\ ~last.saved
        /\ Contents(Disk) = last.before
        /\ backups = <<>>

\* C29 happens: the data names a new first name and then an email that the
\* validator refuses, for a student stored with one other record: the stored
\* first name is the old one.
C29_ValidFieldNotStored ==
    /\ RefusedUpdate
    /\ ~Refused(last.args[2][1])
    /\ last.args[2][1][1] = "first_name"
    /\ ReadBefore # NoStudent
    /\ Len(file) = 2
    /\ \E i \in DOMAIN file :
          /\ file[i].student_id = ReadBefore.student_id
          /\ file[i].first_name = ReadBefore.first_name
          /\ file[i].first_name # validate_name(last.args[2][1][2]).val

(***************************************************************************)
(* Properties of two writers on one path (stated for SpecWriters).         *)
(***************************************************************************)
AddCalls == {"add", "mgr_add"}

\* writer w has returned from its call, with True
Succeeded(w) == writer[w].pc = "done" /\ writer[w].ret

\* C26: a writer's rewrite stores the list the writer loaded with its own
\* change and nothing of what was saved since that load: right after a save,
\* the file is that list, and the record that the other writer added with
\* success is in the file only when the saving writer had loaded it.  So a
\* lost update is reachable: both writers return success and the file lacks
\* the change of one of them.
C26_RewriteOfWhatWasLoaded ==
    \A w \in Writers :
        (last.op = "save" /\ last.writer = w /\ writer[w].ret) =>
            /\ file = Plan(writer[w].call, writer[w].loaded).data
            /\ \A o \in Writers \ {w} :
                  (/\ Succeeded(o)
                   /\ writer[o].call.op \in AddCalls
                   /\ writer[w].call.op \in AddCalls
                   /\ writer[o].call.id # writer[w].call.id) =>
                      (Matches(file, writer[o].call.id) # {}
                          <=> Matches(writer[w].loaded, writer[o].call.id) # {})

\* C26 happens: two add_student of different ids have both returned True,
\* and the file lacks the record of one of them.
C26_LostUpdate ==
    /\ \A w \in Writers : Succeeded(w) /\ writer[w].call.op = "add"
    /\ writer[1].call.id # writer[2].call.id
    /\ \E w \in Writers : Matches(file, writer[w].call.id) = {}

\* C28: whatever the order of the writers' loads and rewrites, the stored
\* collection holds no student_id twice.
C28_UniqueIdsInterleaved == NoDuplicates(Ids(file))

\* C28 happens: two StudentManager.add_student of the same student_id have
\* both passed both checks and returned True, and the file holds one record
\* of that id.
C28_SameIdAddedTwice ==
    /\ \A w \in Writers : Succeeded(w) /\ writer[w].call.op = "mgr_add"
    /\ writer[1].call.id = writer[2].call.id
    /\ Cardinality(Matches(file, writer[1].call.id)) = 1

====
